---- MODULE Spec2Model ----
(***************************************************************************)
(* A model of the MRLab instrument-control layer: the Oxford status        *)
(* decoders and their message tables (OxfordIPS, OxfordILM, OxfordITC),    *)
(* the set-then-verify setters of the Oxford profiles, the SCPI command    *)
(* builders of the Keithley profiles, the Oxford profiles in use (status   *)
(* reads, compound settings, close sequences), the resource manager, the   *)
(* cached readings of the Lakeshore 340 and the counts, the voltage source *)
(* and the acquisitions of the Keithley profiles.                          *)
(*                                                                         *)
(* Conventions.                                                            *)
(*  - A Python string that the code slices or indexes (a status string,    *)
(*    an option spelling) is a sequence of one-character strings.  A       *)
(*    phrase or a command fragment that the code only concatenates is a    *)
(*    TLA+ string.                                                         *)
(*  - A Python dict is a function; its keys are tuples of strings.  A      *)
(*    Python int used as a key component is written PyInt(n), a token no   *)
(*    status substring equals, because in Python ('S', 5) # ('S', '05').   *)
(*  - An exception that leaves an operation is recorded by its class name. *)
(***************************************************************************)
EXTENDS Integers, Sequences, FiniteSets, TLC

VARIABLES
    model,                   \* which Oxford profile the instance is: "IPS", "ILM", "ITC"
    messages,                \* self.messages, the Message Table
    build_i,                 \* number of assignments _messages_dictionary_ has made
    assigned_twice,          \* history: some assignment hit a key already present
    last_queried_status,     \* self.last_queried_status
    last_decodified_status,  \* self.last_decodified_status
    failure,                 \* exception that left the last call ("none" if none)
    decodes,                 \* history: number of _status_decoder_ calls made
    first_decodified,        \* history: what the first of them left
    self,                    \* the profile's other attributes (identity, buffer_radix, readings)
    instrument,              \* the transport and the device behind it
    raised,                  \* exception classes raised inside the last call, in order
    call,                    \* history: the last operation called and its arguments
    repeated                 \* history: the last call repeated the call before it

tableVars   == <<messages, build_i, assigned_twice>>
decoderVars == <<last_queried_status, last_decodified_status, failure, decodes,
                 first_decodified>>
objectVars  == <<self, instrument, raised, call, repeated>>
vars == <<model, tableVars, decoderVars, objectVars>>

None == "None"

Models == {"IPS", "ILM", "ITC"}

(***************************************************************************)
(* Small helpers on sequences.                                             *)
(***************************************************************************)
Range(s) == {s[i] : i \in DOMAIN s}

Min(a, b) == IF a < b THEN a ELSE b

\* Python s[a:b] for 0 <= a, with b clamped to len(s)
PySlice(s, a, b) ==
    LET hi == Min(b, Len(s)) IN
    IF a >= hi THEN <<>> ELSE SubSeq(s, a + 1, hi)

\* Python s[a:]
PyFrom(s, a) == PySlice(s, a, Len(s))

RECURSIVE Join(_, _)
\* sep.join(texts)
Join(texts, sep) ==
    IF texts = <<>> THEN ""
    ELSE IF Len(texts) = 1 THEN texts[1]
    ELSE texts[1] \o sep \o Join(Tail(texts), sep)

RECURSIVE ProductLen(_)
ProductLen(tables) ==
    IF tables = <<>> THEN 1 ELSE Len(Head(tables)) * ProductLen(Tail(tables))

\* a Python int used as a dictionary key component
PyInt(n) == "int:" \o ToString(n)

(***************************************************************************)
(* The nested "for a in T1: for b in T2: ... messages[key, a, b, ..] =      *)
(* T1[a] + ' ' + T2[b] + ... + suffix" loops of the _messages_dictionary_  *)
(* methods, as the sequence of assignments <<key tuple, phrase>> they make, *)
(* in loop order.  A fragment table is the sequence of its <<value, text>> *)
(* items in the order the dict literal lists them.                         *)
(***************************************************************************)
NestedLoops(key, tables, suffix) ==
    [k \in 1..ProductLen(tables) |->
        LET item(t) == tables[t][(((k - 1) \div ProductLen(SubSeq(tables, t + 1, Len(tables))))
                                   % Len(tables[t])) + 1]
        IN  << <<key>> \o [t \in 1..Len(tables) |-> item(t)[1]],
               Join([t \in 1..Len(tables) |-> item(t)[2]], " ") \o suffix >>]

(***************************************************************************)
(* The fragment tables of the three _messages_dictionary_ methods.         *)
(***************************************************************************)
OxfordIPS_fragments ==
    [
      X_m_messages |-> <<
            <<"0", "Magnet NORMAL.">>,
            <<"1", "Magnet QUENCHED.">>,
            <<"2", "Power supply OVER HEATED.">>,
            <<"4", "Magnet is WARMING UP.">>,
            <<"8", "Magnet is at FAULT.">> >>,
      X_n_messages |-> <<
            <<"0", "Power supply NORMAL.\n">>,
            <<"1", "Power supply ON POSITIVE VOLTAGE LIMIT.\n">>,
            <<"2", "Power supply ON NEGATIVE VOLTAGE LIMIT.\n">>,
            <<"4", "Power supply OUTSIDE NEGATIVE CURRENT LIMIT.\n">>,
            <<"8", "Power supply OUTSIDE POSITIVE CURRENT LIMIT.\n">> >>,
      A_messages |-> <<
            <<"0", "Power supply output is in HOLD state.\n">>,
            <<"1", "Power supply output is sweeping TO SET POINT.\n">>,
            <<"2", "Power supply output is sweeping TO ZERO.\n">>,
            <<"4", "Power supply output is CLAMPED.\n">> >>,
      C_messages |-> <<
            <<"0", "Power supply in LOCAL AND LOCKED.\n">>,
            <<"1", "Power supply in REMOTE AND LOCKED.\n">>,
            <<"2", "Power supply in LOCAL AND UNLOCKED.\n">>,
            <<"3", "Power supply in REMOTE AND UNLOCKED.\n">>,
            <<"4", "Power supply in AUTO-RUN-DOWN.\n">>,
            <<"5", "Power supply in AUTO-RUN-DOWN.\n">>,
            <<"6", "Power supply in AUTO-RUN-DOWN.\n">>,
            <<"7", "Power supply in AUTO-RUN-DOWN.\n">> >>,
      H_messages |-> <<
            <<"0", "Switch heater is OFF with MAGNET AT ZERO field.\n">>,
            <<"1", "Switch heater is ON.\n">>,
            <<"2", "Switch heater is OFF with MAGNET AT FIELD.\n">>,
            <<"5", "Switch heater is at FAULT.\n">>,
            <<"8", "There is NO SWITCH HEATER fitted.\n">> >>,
      M_m_messages |-> <<
            <<"0", "Power supply in AMPS FAST sweep mode.">>,
            <<"1", "Power supply in FIELD FAST sweep mode.">>,
            <<"4", "Power supply in AMPS SLOW sweep mode.">>,
            <<"5", "Power supply in FIELD SLOW sweep mode.">> >>,
      M_n_messages |-> <<
            <<"0", "Power supply is AT REST.\n">>,
            <<"1", "Power supply is SWEEPING (current in magnet).\n">>,
            <<"2", "Power supply is SWEEP LIMITING (current in switch)).\n">>,
            <<"3", "Power supply is SWEEPING (current in magnet) buth with a SWEEP LIMITING in rate.\n">> >>,
      P_m_messages |-> <<
            <<"0", "Polarities: POS, POS, POS.">>,
            <<"1", "Polarities: POS, POS, NEG.">>,
            <<"2", "Polarities: POS, NEG, POS.">>,
            <<"3", "Polarities: POS, NEG, NEG.">>,
            <<"4", "Polarities: NEG, POS, POS.">>,
            <<"5", "Polarities: NEG, POS, NEG.">>,
            <<"6", "Polarities: NEG, NEG, POS.">>,
            <<"7", "Polarities: NEG, NEG, NEG.">> >>,
      P_n_messages |-> <<
            <<"1", "Negative contactor closed.">>,
            <<"2", "Positive contactor closed.">>,
            <<"3", "Both contactors open.">>,
            <<"4", "Both contactors closed.">>,
            <<"7", "Output clamped.">> >>
    ]

OxfordILM_fragments ==
    [
      channel_1_messages |-> <<
            <<"0", "Channel 1 not in use.">>,
            <<"1", "Channel 1 used for nitrogen level metering.">>,
            <<"2", "Channel 1 used for pulsed helium level metering.">>,
            <<"3", "Channel 1 used for continuous helium level metering.">>,
            <<"9", "Error on channel 1.">> >>,
      channel_2_messages |-> <<
            <<"0", "Channel 2 not in use.">>,
            <<"1", "Channel 2 used for nitrogen level metering.">>,
            <<"2", "Channel 2 used for pulsed helium level metering.">>,
            <<"3", "Channel 2 used for continuous helium level metering.">>,
            <<"9", "Error on channel 2.">> >>,
      channel_3_messages |-> <<
            <<"0", "Channel 3 not in use.">>,
            <<"1", "Channel 3 used for nitrogen level metering.">>,
            <<"2", "Channel 3 used for pulsed helium level metering.">>,
            <<"3", "Channel 3 used for continuous helium level metering.">>,
            <<"9", "Error on channel 3.">> >>,
      channels |-> <<
            <<"1", "Channel 1">>,
            <<"2", "Channel 2">>,
            <<"3", "Channel 3">> >>,
      S_bit_0_messages |-> <<
            <<"0", "">>,
            <<"1", "CURRENT FLOWING in helium probe.">> >>,
      S_bit_1_messages |-> <<
            <<"0", "">>,
            <<"1", "Helium probe in FAST rate.">> >>,
      S_bit_2_messages |-> <<
            <<"0", "">>,
            <<"1", "Helium probe in SLOW rate.">> >>,
      S_bit_3_4_messages |-> <<
            <<"00", "END FILLING.">>,
            <<"01", "NOT FILLING.">>,
            <<"10", "FILLING.">>,
            <<"11", "START FILLING.">> >>,
      S_bit_5_messages |-> <<
            <<"0", "">>,
            <<"1", "LOW STATE is active.">> >>,
      S_bit_6_messages |-> <<
            <<"0", "">>,
            <<"1", "ALARM requested.">> >>,
      S_bit_7_messages |-> <<
            <<"0", "">>,
            <<"1", "PRE-PULSE CURRENT is flowing.">> >>,
      R_bit_0_messages |-> <<
            <<"0", "">>,
            <<"1", "In SHUT DOWN state.">> >>,
      R_bit_1_messages |-> <<
            <<"0", "">>,
            <<"1", "Alarm is SOUNDING.">> >>,
      R_bit_2_messages |-> <<
            <<"0", "">>,
            <<"1", "In ALARM state.">> >>,
      R_bit_3_messages |-> <<
            <<"0", "">>,
            <<"1", "Alarm SILENCING is prohibited.">> >>,
      R_bit_4_messages |-> <<
            <<"0", "">>,
            <<"1", "RELAY 1 is active.">> >>,
      R_bit_5_messages |-> <<
            <<"0", "">>,
            <<"1", "RELAY 2 is active.">> >>,
      R_bit_6_messages |-> <<
            <<"0", "">>,
            <<"1", "RELAY 3 is active.">> >>,
      R_bit_7_messages |-> <<
            <<"0", "">>,
            <<"1", "RELAY 4 is active.">> >>
    ]

OxfordITC_fragments ==
    [
      X_messages |-> <<
            <<"0", "Temperature controller NORMAL operative mode.\n">> >>,
      A_messages |-> <<
            <<"0", "Heater in MANUAL mode. Gas flow in MANUAL mode.\n">>,
            <<"1", "Heater in AUTO mode. Gas flow in MANUAL mode.\n">>,
            <<"2", "Heater in MANUAL mode. Gas flow in AUTO mode.\n">>,
            <<"3", "Heater in AUTO mode. Gas flow in AUTO mode.\n">> >>,
      C_messages |-> <<
            <<"0", "Temperature controller in LOCAL and LOCKED state.\n">>,
            <<"1", "Temperature controller in REMOTE and LOCKED state.\n">>,
            <<"2", "Temperature controller in LOCAL and UNLOCKED state.\n">>,
            <<"3", "Temperature controller in REMOTE and UNLOCKED state.\n">> >>,
      H_messages |-> <<
            <<"1", "Temperature is controlled by CHANNEL 1 sensor.\n">>,
            <<"2", "Temperature is controlled by CHANNEL 2 sensor.\n">>,
            <<"3", "Temperature is controlled by CHANNEL 3 sensor.\n">> >>,
      L_messages |-> <<
            <<"0", "Auto (learned) PIDs are DISABLED.">>,
            <<"1", "Auto (learned) PIDs are ENABLED.">> >>
    ]


(***************************************************************************)
(* _messages_dictionary_: the assignments each method makes, in order.     *)
(***************************************************************************)
\* mutant: the 'M' loop stores under the key of the 'X' loop
OxfordIPS_messages_dictionary_wrong_key ==
    LET f == OxfordIPS_fragments IN
       NestedLoops("X", <<f.X_m_messages, f.X_n_messages>>, "")
    \o NestedLoops("A", <<f.A_messages>>, "")
    \o NestedLoops("C", <<f.C_messages>>, "")
    \o NestedLoops("H", <<f.H_messages>>, "")
    \o NestedLoops("X", <<f.M_m_messages, f.M_n_messages>>, "")
    \o NestedLoops("P", <<f.P_m_messages, f.P_n_messages>>, "")

OxfordIPS_messages_dictionary ==
    LET f == OxfordIPS_fragments IN
       NestedLoops("X", <<f.X_m_messages, f.X_n_messages>>, "")
    \o NestedLoops("A", <<f.A_messages>>, "")
    \o NestedLoops("C", <<f.C_messages>>, "")
    \o NestedLoops("H", <<f.H_messages>>, "")
    \o NestedLoops("M", <<f.M_m_messages, f.M_n_messages>>, "")
    \o NestedLoops("P", <<f.P_m_messages, f.P_n_messages>>, "")

OxfordILM_messages_dictionary ==
    LET f == OxfordILM_fragments IN
       NestedLoops("X", <<f.channel_1_messages, f.channel_2_messages,
                          f.channel_3_messages>>, "\n")
    \o NestedLoops("S", <<f.channels, f.S_bit_0_messages, f.S_bit_1_messages,
                          f.S_bit_2_messages, f.S_bit_3_4_messages, f.S_bit_5_messages,
                          f.S_bit_6_messages, f.S_bit_7_messages>>, "\n")
    \o NestedLoops("R", <<f.R_bit_0_messages, f.R_bit_1_messages, f.R_bit_2_messages,
                          f.R_bit_3_messages, f.R_bit_4_messages, f.R_bit_5_messages,
                          f.R_bit_6_messages, f.R_bit_7_messages>>, "")

\* the 'S' branch: messages[key,'00'], then messages[key, nn] for nn in range(1,32),
\* nn an int
OxfordITC_sweep_messages ==
    << << <<"S", "00">>, "Sweep mode is not active.\n" >> >>
    \o [nn \in 1..31 |->
            << <<"S", PyInt(nn)>>,
               IF nn % 2 = 1
               THEN "Sweeping to step number " \o ToString((nn + 1) \div 2)
                        \o " set temperature.\n"
               ELSE "Holding the step number " \o ToString(nn \div 2)
                        \o " set temperature.\n" >>]

OxfordITC_messages_dictionary ==
    LET f == OxfordITC_fragments IN
       NestedLoops("X", <<f.X_messages>>, "")
    \o NestedLoops("A", <<f.A_messages>>, "")
    \o NestedLoops("C", <<f.C_messages>>, "")
    \o OxfordITC_sweep_messages
    \o NestedLoops("H", <<f.H_messages>>, "")
    \o NestedLoops("L", <<f.L_messages>>, "")

Assignments(m) ==
    CASE m = "IPS" -> OxfordIPS_messages_dictionary
      [] m = "ILM" -> OxfordILM_messages_dictionary
      [] m = "ITC" -> OxfordITC_messages_dictionary

\* Python's messages[key] = phrase
SetItem(d, key, phrase) == (key :> phrase) @@ d

RECURSIVE DictRange(_, _, _)
\* the dict left by the assignments a[lo..hi] made in order (a later one wins)
DictRange(a, lo, hi) ==
    IF lo > hi THEN <<>>
    ELSE IF lo = hi THEN (a[lo][1] :> a[lo][2])
    ELSE LET mid == (lo + hi) \div 2
         IN  DictRange(a, mid + 1, hi) @@ DictRange(a, lo, mid)

\* the value _messages_dictionary_ returns
MessagesDictionary(m) == DictRange(Assignments(m), 1, Len(Assignments(m)))

(***************************************************************************)
(* _status_decoder_.  A decoder makes its lookups field by field and       *)
(* appends each phrase to last_decodified_status as it goes, so a failing  *)
(* lookup leaves the phrases of the fields before it.  Each method is      *)
(* given here by the lookups it makes, in order; a lookup is a key, or the *)
(* exception raised while the key was being formed.                        *)
(***************************************************************************)
Key(k)     == [failure |-> "none", key |-> k]
Raises(e)  == [failure |-> e, key |-> <<>>]

\* the Python string a sequence of characters spells
Str(chars) == Join(chars, "")

HexDigits ==
    ("0" :> 0) @@ ("1" :> 1) @@ ("2" :> 2) @@ ("3" :> 3) @@ ("4" :> 4) @@ ("5" :> 5)
    @@ ("6" :> 6) @@ ("7" :> 7) @@ ("8" :> 8) @@ ("9" :> 9) @@ ("A" :> 10)
    @@ ("B" :> 11) @@ ("C" :> 12) @@ ("D" :> 13) @@ ("E" :> 14) @@ ("F" :> 15)
    @@ ("a" :> 10) @@ ("b" :> 11) @@ ("c" :> 12) @@ ("d" :> 13) @@ ("e" :> 14)
    @@ ("f" :> 15)

IsHex(chars) == chars # <<>> /\ \A i \in DOMAIN chars : chars[i] \in DOMAIN HexDigits

RECURSIVE HexInt(_)
\* int(chars, 16), for IsHex(chars)
HexInt(chars) ==
    IF chars = <<>> THEN 0
    ELSE 16 * HexInt(SubSeq(chars, 1, Len(chars) - 1)) + HexDigits[chars[Len(chars)]]

RECURSIVE Bin(_)
\* bin(v)[2:], most significant bit first
Bin(v) ==
    IF v < 2 THEN <<ToString(v)>> ELSE Bin(v \div 2) \o <<ToString(v % 2)>>

\* s.zfill(8)
Zfill8(bits) == [i \in 1..(8 - Min(8, Len(bits))) |-> "0"] \o bits

\* bin(int(chars, 16))[2:].zfill(8)
HexBits(chars) == Zfill8(Bin(HexInt(chars)))

OxfordIPS_status_split(status) ==
    << PySlice(status, 0, 3), PySlice(status, 3, 5), PySlice(status, 5, 7),
       PySlice(status, 7, 9), PySlice(status, 9, 12), PyFrom(status, 12) >>

OxfordIPS_field_lookups(field) ==
    IF Len(field) = 2 THEN << Key(<<field[1], Str(PyFrom(field, 1))>>) >>
    ELSE IF Len(field) < 3 THEN << Raises("IndexError") >>
    ELSE << Key(<<field[1], field[2], field[3]>>) >>

OxfordILM_status_split(status) ==
    << PySlice(status, 0, 4), PySlice(status, 4, 11), PyFrom(status, 11) >>

OxfordILM_field_lookups(field) ==
    IF Len(field) = 3 THEN
        IF ~IsHex(PyFrom(field, 1)) THEN << Raises("ValueError") >>
        ELSE LET b == HexBits(PyFrom(field, 1)) IN
             \* (bit_7, ..., bit_0) = the eight characters; the key lists bit_0 first
             << Key(<<field[1], b[8], b[7], b[6], b[5], b[4], b[3], b[2], b[1]>>) >>
    ELSE IF Len(field) = 4 THEN
        << Key(<<field[1], field[2], field[3], field[4]>>) >>
    ELSE IF field = <<>> THEN << Raises("IndexError") >>
    ELSE IF ~(IsHex(PySlice(field, 1, 3)) /\ IsHex(PySlice(field, 3, 5))
               /\ IsHex(PyFrom(field, 5)))
         THEN << Raises("ValueError") >>
    ELSE LET channel_statuses == << HexBits(PySlice(field, 1, 3)),
                                    HexBits(PySlice(field, 3, 5)),
                                    HexBits(PyFrom(field, 5)) >>
         IN  [i \in 1..3 |->
                LET c == channel_statuses[i]
                    bits_43 == c[5] \o c[4]
                IN  Key(<<field[1], ToString(i), c[8], c[7], c[6], bits_43,
                          c[3], c[2], c[1]>>)]

\* mutant: the offsets of the IPS decoder
OxfordITC_status_split_as_IPS(status) ==
    << PySlice(status, 0, 3), PySlice(status, 3, 5), PySlice(status, 5, 7),
       PySlice(status, 7, 9), PySlice(status, 9, 12), PyFrom(status, 12) >>

OxfordITC_status_split(status) ==
    << PySlice(status, 0, 2), PySlice(status, 2, 4), PySlice(status, 4, 6),
       PySlice(status, 6, 9), PySlice(status, 9, 11), PyFrom(status, 11) >>

OxfordITC_field_lookups(field) ==
    IF Len(field) = 2 THEN << Key(<<field[1], field[2]>>) >>
    ELSE IF field = <<>> THEN << Raises("IndexError") >>
    ELSE IF field[1] = "S" THEN << Key(<<field[1], Str(PyFrom(field, 1))>>) >>
    ELSE IF Len(field) < 3 THEN << Raises("IndexError") >>
    ELSE << Key(<<field[1], field[2], field[3]>>) >>

RECURSIVE Flatten(_)
Flatten(seqs) == IF seqs = <<>> THEN <<>> ELSE Head(seqs) \o Flatten(Tail(seqs))

\* the lookups _status_decoder_ makes for a status string, in order
Lookups(m, status) ==
    CASE m = "IPS" -> LET sp == OxfordIPS_status_split(status) IN
                      Flatten([i \in DOMAIN sp |-> OxfordIPS_field_lookups(sp[i])])
      [] m = "ILM" -> LET sp == OxfordILM_status_split(status) IN
                      Flatten([i \in DOMAIN sp |-> OxfordILM_field_lookups(sp[i])])
      [] m = "ITC" -> LET sp == OxfordITC_status_split(status) IN
                      Flatten([i \in DOMAIN sp |-> OxfordITC_field_lookups(sp[i])])

RECURSIVE Accumulate(_, _, _)
\* last_decodified_status = last_decodified_status + self.messages[key...], lookup
\* after lookup, until one raises
Accumulate(msgs, lookups, acc) ==
    IF lookups = <<>> THEN [message |-> acc, failure |-> "none"]
    ELSE LET l == Head(lookups) IN
         IF l.failure # "none" THEN [message |-> acc, failure |-> l.failure]
         ELSE IF l.key \notin DOMAIN msgs THEN [message |-> acc, failure |-> "KeyError"]
         ELSE Accumulate(msgs, Tail(lookups), acc \o msgs[l.key])

\* _status_decoder_(status) of the profile m whose table is msgs
StatusDecoder(m, msgs, status) == Accumulate(msgs, Lookups(m, status), "")

(***************************************************************************)
(* Table construction, one assignment per step.                            *)
(***************************************************************************)
\* no operation of a transport-backed profile has been called; n counts the calls
NoCall == [op |-> "none", n |-> 0]

\* no transport-backed profile is in play
ObjectIdle ==
    /\ self = [identity |-> {}]
    /\ instrument = [log |-> <<>>]
    /\ raised = <<>>
    /\ call = NoCall
    /\ repeated = FALSE

DecoderIdle ==
    /\ last_queried_status = <<>>
    /\ last_decodified_status = None
    /\ failure = "none"
    /\ decodes = 0
    /\ first_decodified = None

InitTable ==
    /\ model \in Models
    /\ messages = <<>>
    /\ build_i = 0
    /\ assigned_twice = FALSE
    /\ DecoderIdle
    /\ ObjectIdle

MessagesDictionaryStep ==
    /\ build_i < Len(Assignments(model))
    /\ LET a == Assignments(model)[build_i + 1] IN
          /\ messages' = SetItem(messages, a[1], a[2])
          /\ assigned_twice' = (assigned_twice \/ a[1] \in DOMAIN messages)
    /\ build_i' = build_i + 1
    /\ UNCHANGED <<model, decoderVars, objectVars>>

NextTable == MessagesDictionaryStep

SpecTable == InitTable /\ [][NextTable]_vars

(***************************************************************************)
(* Status strings.  Layout(m) lists, piece by piece, the values a status   *)
(* string of profile m can carry in that piece: the values of the model's  *)
(* fragment tables, and two hexadecimal digits for each ILM status byte.   *)
(***************************************************************************)
Values(table) == {table[i][1] : i \in DOMAIN table}

UpperHex == {"0", "1", "2", "3", "4", "5", "6", "7", "8", "9", "A", "B", "C", "D", "E", "F"}

HexBytes == {<<h, l>> : h \in UpperHex, l \in UpperHex}

\* no bit, each bit alone, the fill-state pair (bits 3 and 4) together, every bit
HexByteSamples ==
    { <<"0", "0">>, <<"0", "1">>, <<"0", "2">>, <<"0", "4">>, <<"0", "8">>, <<"1", "0">>,
      <<"1", "8">>, <<"2", "0">>, <<"4", "0">>, <<"8", "0">>, <<"F", "F">> }

TwoDigits(nn) == <<ToString(nn \div 10), ToString(nn % 10)>>

Layout(m) ==
    CASE m = "IPS" ->
           LET f == OxfordIPS_fragments IN
           << {<<"X", a, b>> : a \in Values(f.X_m_messages), b \in Values(f.X_n_messages)},
              {<<"A", a>> : a \in Values(f.A_messages)},
              {<<"C", a>> : a \in Values(f.C_messages)},
              {<<"H", a>> : a \in Values(f.H_messages)},
              {<<"M", a, b>> : a \in Values(f.M_m_messages), b \in Values(f.M_n_messages)},
              {<<"P", a, b>> : a \in Values(f.P_m_messages), b \in Values(f.P_n_messages)} >>
      [] m = "ILM" ->
           LET f == OxfordILM_fragments IN
           << {<<"X", a, b, c>> : a \in Values(f.channel_1_messages),
                                  b \in Values(f.channel_2_messages),
                                  c \in Values(f.channel_3_messages)},
              {<<"S">>}, HexBytes, HexBytes, HexBytes,
              {<<"R">>}, HexBytes >>
      [] m = "ITC" ->
           LET f == OxfordITC_fragments IN
           << {<<"X", a>> : a \in Values(f.X_messages)},
              {<<"A", a>> : a \in Values(f.A_messages)},
              {<<"C", a>> : a \in Values(f.C_messages)},
              {<<"S">> \o TwoDigits(nn) : nn \in 0..31},
              {<<"H", a>> : a \in Values(f.H_messages)},
              {<<"L", a>> : a \in Values(f.L_messages)} >>

RECURSIVE PiecesAt(_, _, _)
\* does s, read from offset off, spell one value of each piece of layout in turn?
PiecesAt(s, off, layout) ==
    IF layout = <<>> THEN off = Len(s)
    ELSE \E w \in {Len(v) : v \in Head(layout)} :
            /\ PySlice(s, off, off + w) \in Head(layout)
            /\ PiecesAt(s, off + w, Tail(layout))

\* s has the exact fixed layout of model m, every field value from m's tables
WellFormed(m, s) == PiecesAt(s, 0, Layout(m))

(***************************************************************************)
(* The status strings the decoders are run on: every string that differs   *)
(* from the model's base status in at most MaxVaried pieces (the three     *)
(* status bytes of an ILM channel field range over HexByteSamples), and    *)
(* the status string of the documented ITC example.                        *)
(***************************************************************************)
MaxVaried == 1

MaxDecodes == 2

BaseStatus(m) ==
    CASE m = "IPS" -> << <<"X", "0", "0">>, <<"A", "0">>, <<"C", "0">>, <<"H", "0">>,
                         <<"M", "0", "0">>, <<"P", "0", "1">> >>
      [] m = "ILM" -> << <<"X", "0", "0", "0">>, <<"S">>, <<"0", "0">>, <<"0", "0">>,
                         <<"0", "0">>, <<"R">>, <<"0", "0">> >>
      [] m = "ITC" -> << <<"X", "0">>, <<"A", "1">>, <<"C", "1">>, <<"S", "0", "0">>,
                         <<"H", "2">>, <<"L", "0">> >>

Sampled(m) ==
    IF m = "ILM"
    THEN [i \in DOMAIN Layout(m) |-> IF i \in {3, 4, 5} THEN HexByteSamples ELSE Layout(m)[i]]
    ELSE Layout(m)

RECURSIVE VariantsFrom(_, _, _, _)
VariantsFrom(pieces, base, i, budget) ==
    IF i > Len(pieces) THEN {<<>>}
    ELSE {base[i] \o rest : rest \in VariantsFrom(pieces, base, i + 1, budget)}
         \cup (IF budget = 0 THEN {}
               ELSE {v \o rest : v \in pieces[i] \ {base[i]},
                                 rest \in VariantsFrom(pieces, base, i + 1, budget - 1)})

ExampleStatus ==
    <<"X", "0", "0", "A", "1", "C", "1", "S", "0", "5", "H", "2", "L", "0">>

StatusInputs(m) ==
    VariantsFrom(Sampled(m), BaseStatus(m), 1, MaxVaried)
    \cup (IF m = "ITC" THEN {ExampleStatus} ELSE {})

(***************************************************************************)
(* The decoders run on a constructed profile: self.messages holds the      *)
(* table _messages_dictionary_ returned.                                   *)
(***************************************************************************)
InitDecoder ==
    /\ model \in Models
    /\ messages = MessagesDictionary(model)
    /\ build_i = Len(Assignments(model))
    /\ assigned_twice = FALSE
    /\ last_queried_status \in StatusInputs(model)
    /\ last_decodified_status = None
    /\ failure = "none"
    /\ decodes = 0
    /\ first_decodified = None
    /\ ObjectIdle

\* self._status_decoder_(self.last_queried_status)
StatusDecoderCall(m) ==
    /\ model = m
    /\ decodes < MaxDecodes
    /\ LET r == StatusDecoder(m, messages, last_queried_status) IN
          /\ last_decodified_status' = r.message
          /\ failure' = r.failure
          /\ first_decodified' = IF decodes = 0 THEN r.message ELSE first_decodified
    /\ decodes' = decodes + 1
    /\ UNCHANGED <<model, tableVars, last_queried_status, objectVars>>

OxfordIPS_status_decoder == StatusDecoderCall("IPS")
OxfordILM_status_decoder == StatusDecoderCall("ILM")
OxfordITC_status_decoder == StatusDecoderCall("ITC")

NextDecoder ==
    \/ OxfordIPS_status_decoder
    \/ OxfordILM_status_decoder
    \/ OxfordITC_status_decoder

SpecDecoder == InitDecoder /\ [][NextDecoder]_vars

(***************************************************************************)
(* Claims about the status decoders and the message tables.                *)
(***************************************************************************)

\* C1: for every status string of a model's exact fixed layout whose field values
\* come from that model's fragment tables, _status_decoder_ completes without a
\* lookup failure, leaves a non-empty last_decodified_status, and decoding the same
\* string a second time leaves the same message.
C1_DecoderTotalOnWellFormed ==
    (decodes >= 1 /\ WellFormed(model, last_queried_status)) =>
        /\ failure = "none"
        /\ last_decodified_status \notin {None, ""}
        /\ (decodes = 2 => last_decodified_status = first_decodified)

IdleSweepStatus == <<"X", "0", "A", "1", "C", "1", "S", "0", "0", "H", "2", "L", "0">>

TableSize(m) ==
    CASE m = "IPS" -> 25 + 4 + 8 + 5 + 16 + 40
      [] m = "ILM" -> (5 * 5 * 5) + (3 * 2 * 2 * 2 * 4 * 2 * 2 * 2) + (2 * 2 * 2 * 2 * 2 * 2 * 2 * 2)
      [] m = "ITC" -> 1 + 4 + 4 + 32 + 3 + 2

\* C3: while _messages_dictionary_ builds a table no key is assigned twice, so the
\* table has one entry per assignment made, and the finished table has the size the
\* fragment tables give (98 entries for the IPS).
C3_NoDuplicateKeys ==
    /\ ~assigned_twice
    /\ Cardinality(DOMAIN messages) = build_i
    /\ build_i = Len(Assignments(model)) =>
          /\ Cardinality(DOMAIN messages) = TableSize(model)
          /\ messages = MessagesDictionary(model)
    /\ (model = "IPS" /\ build_i = Len(Assignments(model))) => build_i = 98

\* the IPS table has been built to its last assignment
C3_Witness ==
    model = "IPS" /\ build_i = Len(Assignments(model)) /\ build_i > 0

(***************************************************************************)
(* Numbers on the wire.  A Python float is kept as an integer number of    *)
(* millionths (Micro to the unit); a number's text is a sequence of        *)
(* characters, produced by the format the code uses and read back by       *)
(* float().  Formatting rounds to the nearest value of the format's        *)
(* resolution (Python settles an exact half by the binary value of the     *)
(* float; the inputs below hold no exact half).                            *)
(***************************************************************************)
Micro == 10^6

Abs(x) == IF x < 0 THEN -x ELSE x

RECURSIVE Digits(_)
\* str(n) for an int n >= 0
Digits(n) == IF n < 10 THEN <<ToString(n)>> ELSE Digits(n \div 10) \o <<ToString(n % 10)>>

\* n in decimal, zero-filled on the left to width characters
PadDigits(n, width) ==
    [i \in 1..(width - Min(width, Len(Digits(n)))) |-> "0"] \o Digits(n)

\* |v| rounded to places decimals, in units of 10^-places
RoundTo(v, places) ==
    LET q == 10^(6 - places) IN (Abs(v) + (q \div 2)) \div q

\* '{0:+.<places>f}'.format(v)
FormatFixed(v, places) ==
    LET r == RoundTo(v, places) IN
    <<IF v < 0 THEN "-" ELSE "+">> \o Digits(r \div 10^places)
        \o <<".">> \o PadDigits(r % 10^places, places)

RECURSIVE StripZeros(_)
StripZeros(chars) ==
    IF chars # <<>> /\ chars[Len(chars)] = "0"
    THEN StripZeros(SubSeq(chars, 1, Len(chars) - 1)) ELSE chars

\* '{0:G}'.format(v) for v = 0 or 0.0001 <= v < 1000000: six significant digits,
\* trailing zeros removed
FormatG(v) ==
    LET places == IF v >= 100 * Micro THEN 3 ELSE IF v >= 10 * Micro THEN 4
                  ELSE IF v >= Micro THEN 5 ELSE 6
        r    == RoundTo(v, places)
        frac == StripZeros(PadDigits(r % 10^places, places))
    IN  (IF v < 0 THEN <<"-">> ELSE <<>>) \o Digits(r \div 10^places)
            \o (IF frac = <<>> THEN <<>> ELSE <<".">> \o frac)

RECURSIVE DecInt(_)
\* int(chars) for a sequence of decimal digits
DecInt(chars) ==
    IF chars = <<>> THEN 0
    ELSE 10 * DecInt(SubSeq(chars, 1, Len(chars) - 1)) + HexDigits[chars[Len(chars)]]

\* float(chars) for [sign] digits [. digits], at most six decimals
PyFloat(chars) ==
    LET signed == chars # <<>> /\ chars[1] \in {"+", "-"}
        body   == IF signed THEN Tail(chars) ELSE chars
        dots   == {i \in DOMAIN body : body[i] = "."}
        dot    == IF dots = {} THEN Len(body) + 1 ELSE CHOOSE i \in dots : TRUE
        whole  == SubSeq(body, 1, dot - 1)
        frac   == SubSeq(body, dot + 1, Len(body))
        mag    == DecInt(whole) * Micro + DecInt(frac) * 10^(6 - Len(frac))
    IN  IF signed /\ chars[1] = "-" THEN -mag ELSE mag

(***************************************************************************)
(* The transport and the device behind it.  instrument.log is the trace of *)
(* what the current call sent; instrument.told[c] is the argument text of  *)
(* the last command c the device received.  What the device answers to a   *)
(* read-back query is the environment's choice env: the text it was last   *)
(* told ("echo"), the text of some other value ("value"), or a rejection   *)
(* ("reject": the echo character followed by '?').                         *)
(***************************************************************************)
NoReading == <<>>          \* None, for an attribute that otherwise holds a float

Reading(v) == <<v>>

\* self.instrument.query(self.buffer_radix + letter + argument)
Query(ctx, letter, arg) ==
    LET text == ctx.self.buffer_radix \o <<letter>> \o arg IN
    [ctx EXCEPT !.instrument.log = Append(@, [op |-> "query", text |-> text]),
                !.instrument.told = IF letter \in DOMAIN @
                                    THEN [@ EXCEPT ![letter] = arg] ELSE @]

\* the reply to the read-back query of the setting that command letter sets
Reply(ctx, letter, env) ==
    CASE env.kind = "echo"   -> <<"R">> \o ctx.instrument.told[letter]
      [] env.kind = "value"  -> <<"R">> \o FormatFixed(env.value, 6)
      [] env.kind = "reject" -> <<"R", "?">>

\* raise e, caught by an except clause that lets nothing out: IPS handlers only name
\* error.error_handler without calling it
Swallowed(ctx, e) == [ctx EXCEPT !.raised = Append(@, e)]

\* the exception that leaves "except ... as error: error.error_handler()" with no
\* raise after it: the handler of the Errors module reports the error and returns
error_handler(e) == "none"

\* raise e, caught by "except ...: error.error_handler()"
Handled(ctx, e) == [ctx EXCEPT !.raised = Append(@, e), !.failure = error_handler(e)]

\* raise e, with no except clause of the operation naming it
Uncaught(ctx, e) == [ctx EXCEPT !.raised = Append(@, e), !.failure = e]

(***************************************************************************)
(* The read-back operations and the set-then-verify setters.               *)
(***************************************************************************)
OxfordIPS_get_current_set_point_reading(ctx, env) ==
    IF "IPS" \in ctx.self.identity THEN
        LET c1     == Query(ctx, "R", <<"5">>)
            string == PyFrom(Reply(c1, "I", env), 1)
        IN  IF "?" \in Range(string) THEN Swallowed(c1, "PSNotResponding")
            ELSE [c1 EXCEPT !.self.current_set_point = Reading(PyFloat(string))]
    ELSE Swallowed(ctx, "IncorrectInstrumentError")

\* a get_field_set_point_reading that strips the sign along with the echo character
OxfordIPS_get_field_set_point_reading_unsigned(ctx, env) ==
    IF "IPS" \in ctx.self.identity THEN
        LET c1     == Query(ctx, "R", <<"8">>)
            string == PyFrom(Reply(c1, "J", env), 2)
        IN  IF "?" \in Range(string) THEN Swallowed(c1, "PSNotResponding")
            ELSE [c1 EXCEPT !.self.field_set_point = Reading(PyFloat(string))]
    ELSE Swallowed(ctx, "IncorrectInstrumentError")

OxfordIPS_get_field_set_point_reading(ctx, env) ==
    IF "IPS" \in ctx.self.identity THEN
        LET c1     == Query(ctx, "R", <<"8">>)
            string == PyFrom(Reply(c1, "J", env), 1)
        IN  IF "?" \in Range(string) THEN Swallowed(c1, "PSNotResponding")
            ELSE [c1 EXCEPT !.self.field_set_point = Reading(PyFloat(string))]
    ELSE Swallowed(ctx, "IncorrectInstrumentError")

OxfordITC_get_temperature_set_point_reading(ctx, env) ==
    IF "ITC" \in ctx.self.identity THEN
        LET c1     == Query(ctx, "R", <<"0">>)
            string == PyFrom(Reply(c1, "T", env), 1)
        IN  IF "?" \in Range(string) THEN Handled(c1, "TCNotResponding")
            ELSE [c1 EXCEPT !.self.temperature_set_point = Reading(PyFloat(string))]
    ELSE Handled(ctx, "IncorrectInstrumentError")

\* a set_target_current whose command carries the target as an increment of the
\* cached set point
OxfordIPS_set_target_current_as_increment(ctx, current, env) ==
    IF "IPS" \in ctx.self.identity THEN
        IF Abs(current) <= 9846 * (Micro \div 100) THEN
            LET old == IF ctx.self.current_set_point = NoReading
                       THEN 0 ELSE ctx.self.current_set_point[1]
                c1 == Query(ctx, "I", FormatFixed(old + current,
                                  IF ctx.self.extended_resolution THEN 4 ELSE 3))
                c2 == OxfordIPS_get_current_set_point_reading(c1, env)
            IN  IF c2.self.current_set_point # Reading(current)
                THEN Swallowed(c2, "PSNotResponding") ELSE c2
        ELSE Swallowed(ctx, "PSWrongOutputCurrent")
    ELSE Swallowed(ctx, "IncorrectInstrumentError")

OxfordIPS_set_target_current(ctx, current, env) ==
    IF "IPS" \in ctx.self.identity THEN
        IF Abs(current) <= 9846 * (Micro \div 100) THEN
            LET c1 == Query(ctx, "I", FormatFixed(current,
                                  IF ctx.self.extended_resolution THEN 4 ELSE 3))
                c2 == OxfordIPS_get_current_set_point_reading(c1, env)
            IN  IF c2.self.current_set_point # Reading(current)
                THEN Swallowed(c2, "PSNotResponding") ELSE c2
        ELSE Swallowed(ctx, "PSWrongOutputCurrent")
    ELSE Swallowed(ctx, "IncorrectInstrumentError")

OxfordIPS_set_target_field(ctx, field, env) ==
    IF "IPS" \in ctx.self.identity THEN
        IF Abs(field) <= 7 * Micro THEN
            LET c1 == Query(ctx, "J", FormatFixed(field,
                                  IF ctx.self.extended_resolution THEN 5 ELSE 4))
                c2 == OxfordIPS_get_field_set_point_reading(c1, env)
            IN  IF c2.self.field_set_point # Reading(field)
                THEN Uncaught(c2, "PSNotResponding") ELSE c2
        ELSE Uncaught(ctx, "PSWrongOutputField")
    ELSE Swallowed(ctx, "IncorrectInstrumentError")

OxfordITC_set_temperature_set_point(ctx, set_point, env) ==
    IF "ITC" \in ctx.self.identity THEN
        IF set_point >= 0 /\ set_point <= 420 * Micro THEN
            LET c1 == Query(ctx, "T", FormatG(set_point))
                c2 == OxfordITC_get_temperature_set_point_reading(c1, env)
            IN  IF c2.self.temperature_set_point # Reading(set_point)
                THEN Handled(c2, "TCNotResponding") ELSE c2
        ELSE Handled(ctx, "TCWrongSetPoint")
    ELSE Handled(ctx, "IncorrectInstrumentError")

(***************************************************************************)
(* The set-then-verify specification: an IPS or ITC profile after its      *)
(* constructor, driven by calls of its setters and read-back operations.   *)
(***************************************************************************)
TableIdle ==
    /\ messages = <<>>
    /\ build_i = 0
    /\ assigned_twice = FALSE

\* requested values, in millionths: both sides of each limit, values the command's
\* format carries exactly and values it rounds
Currents == {-98470000, -98460000, 123430, 1000000, 98460000, 98470000}

Fields == {-7100000, -7000000, 123456, 1000000, 7000001}

Temperatures == {-1000000, 0, 1000000, 123456700, 420000000, 420500000}

\* values a device may report that it was never told
ReplyValues == {1000000}

\* calls made on one profile
MaxCalls == 2

Envs ==
    {[kind |-> "echo", value |-> 0], [kind |-> "reject", value |-> 0]}
        \cup {[kind |-> "value", value |-> w] : w \in ReplyValues}

\* Cryostat.__init__: the ISOBUS prefix of every command
buffer_radix(ISOBUS_master, ISOBUS_linked, ISOBUS_adress) ==
    IF ISOBUS_master THEN <<"@", "0">>
    ELSE IF ISOBUS_linked THEN <<"@">> \o FormatG(ISOBUS_adress * Micro)
    ELSE <<>>

Radixes == {buffer_radix(m, l, 1) : m, l \in BOOLEAN}

\* what the device holds for each setting before it is told anything
PowerOnTold == [I |-> FormatFixed(0, 4), J |-> FormatFixed(0, 5), T |-> FormatG(0)]

\* the reading a constructor's read-back leaves: the device's value, or None when
\* the device rejected the query
FirstReadings(letter) == {NoReading, Reading(PyFloat(PowerOnTold[letter]))}

InitOxford ==
    /\ model \in {"IPS", "ITC"}
    /\ TableIdle
    /\ DecoderIdle
    /\ \E id \in {{model}, {"ILM"}}, radix \in Radixes, ext \in BOOLEAN,
          c \in FirstReadings("I"), f \in FirstReadings("J"), t \in FirstReadings("T") :
            self = IF model = "IPS"
                   THEN [identity |-> id, buffer_radix |-> radix,
                         extended_resolution |-> ext,
                         current_set_point |-> c, field_set_point |-> f,
                         temperature_set_point |-> NoReading]
                   ELSE [identity |-> id, buffer_radix |-> radix,
                         extended_resolution |-> FALSE,
                         current_set_point |-> NoReading, field_set_point |-> NoReading,
                         temperature_set_point |-> t]
    /\ instrument = [log |-> <<>>, told |-> PowerOnTold]
    /\ raised = <<>>
    /\ call = NoCall
    /\ repeated = FALSE

\* the state a call starts from
Enter == [self |-> self, instrument |-> [instrument EXCEPT !.log = <<>>],
          raised |-> <<>>, failure |-> "none"]

\* one call of operation op with argument arg, the device answering as env says
Call(op, letter, probe, arg, env, ctx) ==
    LET answer == PyFrom(Reply(ctx, letter, env), 1)
        sent   == \E i \in DOMAIN ctx.instrument.log :
                      ctx.instrument.log[i].text = ctx.self.buffer_radix \o <<"R", probe>>
    IN
    /\ call.n < MaxCalls
    /\ self' = ctx.self
    /\ instrument' = ctx.instrument
    /\ raised' = ctx.raised
    /\ call' = [op |-> op, n |-> call.n + 1, arg |-> arg, env |-> env,
                failure |-> ctx.failure,
                reread |-> IF sent /\ "?" \notin Range(answer)
                           THEN Reading(PyFloat(answer)) ELSE NoReading]
    /\ repeated' = (call.op = op /\ call.arg = arg /\ call.env = env)
    /\ UNCHANGED <<model, tableVars, decoderVars>>

Call_set_target_current ==
    /\ model = "IPS"
    /\ \E current \in Currents, env \in Envs :
          Call("set_target_current", "I", "5", Reading(current), env,
               OxfordIPS_set_target_current(Enter, current, env))

Call_set_target_field ==
    /\ model = "IPS"
    /\ \E field \in Fields, env \in Envs :
          Call("set_target_field", "J", "8", Reading(field), env,
               OxfordIPS_set_target_field(Enter, field, env))

Call_set_temperature_set_point ==
    /\ model = "ITC"
    /\ \E set_point \in Temperatures, env \in Envs :
          Call("set_temperature_set_point", "T", "0", Reading(set_point), env,
               OxfordITC_set_temperature_set_point(Enter, set_point, env))

Call_get_current_set_point_reading ==
    /\ model = "IPS"
    /\ \E env \in Envs :
          Call("get_current_set_point_reading", "I", "5", NoReading, env,
               OxfordIPS_get_current_set_point_reading(Enter, env))

Call_get_field_set_point_reading ==
    /\ model = "IPS"
    /\ \E env \in Envs :
          Call("get_field_set_point_reading", "J", "8", NoReading, env,
               OxfordIPS_get_field_set_point_reading(Enter, env))

Call_get_temperature_set_point_reading ==
    /\ model = "ITC"
    /\ \E env \in Envs :
          Call("get_temperature_set_point_reading", "T", "0", NoReading, env,
               OxfordITC_get_temperature_set_point_reading(Enter, env))

NextOxford ==
    \/ Call_set_target_current
    \/ Call_set_target_field
    \/ Call_set_temperature_set_point
    \/ Call_get_current_set_point_reading
    \/ Call_get_field_set_point_reading
    \/ Call_get_temperature_set_point_reading

SpecOxford == InitOxford /\ [][NextOxford]_vars

(***************************************************************************)
(* Claims about the set-then-verify setters.                               *)
(***************************************************************************)
Setters == {"set_target_current", "set_target_field", "set_temperature_set_point"}

\* the last call was setter op on a profile whose identity names its model
Called(op) == call.op = op /\ model \in self.identity

\* the documented legal range of each setter's argument
InRange(op, v) ==
    CASE op = "set_target_current"        -> Abs(v) <= 98460000
      [] op = "set_target_field"          -> Abs(v) <= 7000000
      [] op = "set_temperature_set_point" -> v >= 0 /\ v <= 420000000

\* the cached reading a setter verifies
Cached(op) ==
    CASE op = "set_target_current"        -> self.current_set_point
      [] op = "set_target_field"          -> self.field_set_point
      [] op = "set_temperature_set_point" -> self.temperature_set_point

\* the commands of the last call that begin with letter
Sent(letter) ==
    {i \in DOMAIN instrument.log :
        instrument.log[i].text[Len(self.buffer_radix) + 1] = letter}

\* C4: set_target_current(c) on an IPS profile sends the 'I' command only when
\* |c| <= 98.46; for |c| > 98.46 the call ends in a wrong-output-current failure
\* and nothing is written or queried on the transport.
C4_OutOfRangeCurrentRejected ==
    Called("set_target_current") =>
        /\ Sent("I") # {} => InRange(call.op, call.arg[1])
        /\ ~InRange(call.op, call.arg[1]) =>
              /\ call.failure = "PSWrongOutputCurrent"
              /\ instrument.log = <<>>

\* C5: when set_target_current, set_target_field or set_temperature_set_point is
\* called with a value inside the legal range and the re-read returns that value,
\* the call ends without a failure and the cached set point is that value.
C5_RereadEqualSucceeds ==
    \A op \in Setters :
        (Called(op) /\ InRange(op, call.arg[1]) /\ call.reread = call.arg) =>
            /\ call.failure = "none"
            /\ raised = <<>>
            /\ Cached(op) = call.arg

C5_Witness ==
    /\ Called("set_target_field")
    /\ InRange(call.op, call.arg[1])
    /\ call.reread = call.arg
    /\ call.env.kind = "echo"
    /\ Sent("J") # {}
    /\ self.field_set_point = call.arg

\* C6: when set_target_current or set_temperature_set_point is called with a value
\* inside the legal range and the re-read returns a different value w, the call ends
\* in a device-not-responding failure at its caller and the cached set point is w.
C6_RereadDifferentFails ==
    \A op \in {"set_target_current", "set_temperature_set_point"} :
        (Called(op) /\ InRange(op, call.arg[1])
            /\ call.reread # NoReading /\ call.reread # call.arg) =>
            /\ call.failure \in {"PSNotResponding", "TCNotResponding"}
            /\ Cached(op) = call.reread

\* the cached set-point readings of the profile
Readings == <<self.current_set_point, self.field_set_point, self.temperature_set_point>>

\* C7: when a setter is called again with the same in-range value, the device
\* answering both read-backs with what it was last told, the second call leaves
\* the cached readings as the first call left them.
C7_RepeatedSetIsIdempotent ==
    [][(/\ call.op \in Setters
        /\ call'.op = call.op
        /\ call'.arg = call.arg
        /\ InRange(call.op, call.arg[1])
        /\ call.env.kind = "echo"
        /\ call'.env.kind = "echo") => Readings' = Readings]_vars

C7_Witness ==
    /\ repeated
    /\ Called("set_target_current")
    /\ InRange(call.op, call.arg[1])
    /\ call.env.kind = "echo"
    /\ call.arg[1] # 0
    /\ self.current_set_point = call.arg

(***************************************************************************)
(* Option spellings and the name-to-mnemonic tables.  A spelling is a      *)
(* sequence of characters; a mnemonic is a string.                         *)
(***************************************************************************)
LowerCase == <<"a", "b", "c", "d", "e", "f", "g", "h", "i", "j", "k", "l", "m", "n", "o", "p", "q", "r", "s", "t", "u", "v", "w", "x", "y", "z">>

UpperCase == <<"A", "B", "C", "D", "E", "F", "G", "H", "I", "J", "K", "L", "M", "N", "O", "P", "Q", "R", "S", "T", "U", "V", "W", "X", "Y", "Z">>

IsCased(c) == c \in Range(LowerCase) \cup Range(UpperCase)

\* c.upper() and c.lower() for one character
UpperChar(c) ==
    IF c \in Range(LowerCase) THEN UpperCase[CHOOSE i \in 1..26 : LowerCase[i] = c] ELSE c

LowerChar(c) ==
    IF c \in Range(UpperCase) THEN LowerCase[CHOOSE i \in 1..26 : UpperCase[i] = c] ELSE c

\* str.upper(), str.lower(), str.title()
PyUpper(s) == [i \in DOMAIN s |-> UpperChar(s[i])]

PyLower(s) == [i \in DOMAIN s |-> LowerChar(s[i])]

PyTitle(s) ==
    [i \in DOMAIN s |->
        IF i = 1 \/ ~IsCased(s[i - 1]) THEN UpperChar(s[i]) ELSE LowerChar(s[i])]

\* a type_dictionary that lists every key lowercased and nothing else
type_dictionary_lowercase_only(keys, buffers) ==
    IF Len(keys) = Len(buffers)
    THEN [failure |-> "none",
          lista   |-> [i \in 1..Len(keys) |-> <<PyLower(keys[i]), buffers[i]>>]]
    ELSE [failure |-> "InvalidTypeDictionaryError", lista |-> <<>>]

type_dictionary(keys, buffers) ==
    IF Len(keys) = Len(buffers)
    THEN [failure |-> "none",
          lista   |-> [j \in 1..(3 * Len(keys)) |->
                          LET i == (j + 2) \div 3 IN
                          CASE j % 3 = 1 -> <<keys[i], buffers[i]>>
                            [] j % 3 = 2 -> <<PyTitle(keys[i]), buffers[i]>>
                            [] j % 3 = 0 -> <<PyUpper(keys[i]), buffers[i]>>]]
    ELSE [failure |-> "InvalidTypeDictionaryError", lista |-> <<>>]

\* dict(lista): the last pair of a key wins
PyDict(lista) ==
    [k \in {lista[i][1] : i \in DOMAIN lista} |->
        lista[CHOOSE i \in DOMAIN lista :
                 lista[i][1] = k /\ \A j \in DOMAIN lista : lista[j][1] = k => j <= i][2]]

\* d[key]
GetItem(d, key) ==
    IF key \in DOMAIN d THEN [failure |-> "none", value |-> d[key]]
    ELSE [failure |-> "KeyError", value |-> None]

\* the (keys, buffers) the configuration operations pass to type_dictionary
autoclear_table == [keys |-> <<<<"a", "l", "w", "a", "y", "s">>, <<"o", "n", " ", "t", "r", "i", "g", "g", "e", "r">>>>, buffers |-> <<"ALW", "TCO">>]

spacing_table == [keys |-> <<<<"l", "i", "n", "e", "a", "r">>, <<"l", "o", "g", "a", "r", "i", "t", "h", "m", "i", "c">>>>, buffers |-> <<"LIN", "LOG">>]

direction_table == [keys |-> <<<<"u", "p">>, <<"d", "o", "w", "n">>>>, buffers |-> <<"UP", "DOWN">>]

range_mode_table ==
    [keys |-> <<<<"b", "e", "s", "t">>, <<"a", "u", "t", "o">>, <<"f", "i", "x", "e", "d">>>>, buffers |-> <<"BEST", "AUTO", "FIX">>]

abort_mode_table ==
    [keys |-> <<<<"n", "e", "v", "e", "r">>, <<"e", "a", "r", "l", "y">>, <<"l", "a", "t", "e">>>>, buffers |-> <<"NEV", "EARL", "LATE">>]

mode_table == [keys |-> <<<<"O", "n">>, <<"O", "n", "c", "e">>, <<"O", "f", "f">>>>, buffers |-> <<"ON", "ONCE", "OFF">>]

\* dict(self.type_dictionary(keys, buffers))
TypeDict(table) == PyDict(type_dictionary(table.keys, table.buffers).lista)

\* the dictionaries the configuration operations look their options up in
autoclear_types == TypeDict(autoclear_table)

spacing_types == TypeDict(spacing_table)

directions == TypeDict(direction_table)

range_modes == TypeDict(range_mode_table)

abort_modes == TypeDict(abort_mode_table)

mode_types == TypeDict(mode_table)

(***************************************************************************)
(* Numbers in a command buffer.  An argument is a Python int or a float    *)
(* (in millionths); '{!s}' writes str() of it.  A buffer is the sequence   *)
(* of the pieces it is concatenated from: each literal of the source's     *)
(* format strings, cut after every ';' and before every placeholder, and   *)
(* the text of each placeholder's value.                                   *)
(***************************************************************************)
PyInteger(n) == [type |-> "int", value |-> n]

PyFloating(millionths) == [type |-> "float", value |-> millionths]

\* str(x): an int in decimal; a float in the shortest decimal that reads back,
\* with an exponent below 0.0001
PyStr(x) ==
    LET m    == Abs(x.value)
        sign == IF x.value < 0 THEN <<"-">> ELSE <<>>
        frac == StripZeros(PadDigits(m % Micro, 6))
    IN  Str(sign \o
            (CASE x.type = "int" -> Digits(m)
               [] x.type = "float" /\ (m = 0 \/ m >= 100) ->
                     Digits(m \div Micro) \o <<".">> \o (IF frac = <<>> THEN <<"0">> ELSE frac)
               [] x.type = "float" /\ m >= 10 /\ m < 100 ->
                     Digits(m \div 10)
                        \o (IF m % 10 = 0 THEN <<>> ELSE <<".">> \o Digits(m % 10))
                        \o <<"e", "-", "0", "5">>
               [] x.type = "float" /\ m > 0 /\ m < 10 ->
                     Digits(m) \o <<"e", "-", "0", "6">>))

(***************************************************************************)
(* Keithley 2400: the transport, the helpers and the source configuration  *)
(* operations.                                                             *)
(***************************************************************************)
\* self.instrument.write(buffer) and self.instrument.query(buffer)
Write(ctx, buffer) ==
    [ctx EXCEPT !.instrument.log = Append(@, [op |-> "write", text |-> buffer])]

Ask(ctx, buffer) ==
    [ctx EXCEPT !.instrument.log = Append(@, [op |-> "query", text |-> buffer])]

\* 'KEITHLEY' in self.identity and '2400' in self.identity
IsKeithley2400(ctx) == {"KEITHLEY", "2400"} \subseteq ctx.self.identity

\* the failure a try block ended with, after an except clause of the operation that
\* names it ran error.error_handler() with no raise behind it
Caught(ctx) == [ctx EXCEPT !.failure = error_handler(@)]

Instruments_operation_complete_query(ctx) == Ask(ctx, <<"*OPC?">>)

\* reply is the answer to ':SYST:ERR?' split at its commas
Keithley2400_error_query(ctx, reply) ==
    IF IsKeithley2400(ctx) THEN
        LET c1 == [Ask(ctx, <<":SYST:ERR?">>) EXCEPT !.self.last_internal_error = reply]
        IN  IF reply[1] # "0" THEN Uncaught(c1, "ReportInstrumentInternalError") ELSE c1
    ELSE Uncaught(ctx, "IncorrectInstrumentError")

Keithley2400_source_general_configuration(auto_clear, autoclear_mode, auto_settle, settling_delay) ==
    LET mode == IF auto_clear THEN GetItem(autoclear_types, autoclear_mode)
                ELSE [failure |-> "none", value |-> None]
    IN  IF mode.failure # "none" THEN [failure |-> mode.failure, buffer |-> <<>>]
        ELSE [failure |-> "none",
              buffer  |->
                (IF auto_clear
                 THEN <<":SOUR:CLE:AUTO ON;", ":SOUR:CLE:AUTO:mode ", mode.value, ";">>
                 ELSE <<":SOUR:CLE:AUTO OFF;">>)
                \o (IF auto_settle
                    THEN <<":SOUR:DEL:AUTO ON;">>
                    ELSE <<":SOUR:DEL:AUTO OFF;", ":SOUR:DEL ", PyStr(settling_delay), ";">>)]

\* the buffer only; the assignment self.sweep_steps = points is the caller's part below
Keithley2400_sweep_configuration(spacing, points, direction, sweep_range_mode, abort_on_compliance) ==
    LET s == GetItem(spacing_types, spacing)
        d == GetItem(directions, direction)
        r == GetItem(range_modes, sweep_range_mode)
        a == GetItem(abort_modes, abort_on_compliance)
    IN  IF \E x \in {s, d, r, a} : x.failure # "none"
        THEN [failure |-> "KeyError", buffer |-> <<>>]
        ELSE [failure |-> "none",
              buffer  |-> <<":SOUR:SWE:SPAC ", s.value, ";", ":SOUR:SWE:POIN ", PyStr(points), ";",
                            ":SOUR:SWE:DIR ", d.value, ";", ":SOUR:SWE:RANG ", r.value, ";",
                            ":SOUR:SWE:CAB ", a.value, ";">>]

\* set_level_mode == word or == word.title() or == word.upper()
Spelled(set_level_mode, word) == set_level_mode \in {word, PyTitle(word), PyUpper(word)}

\* the tail of every configuration operation: write, completion barrier, error query
WriteAndCheck(ctx, buffer, reply) ==
    Caught(Keithley2400_error_query(
               Instruments_operation_complete_query(Write(ctx, buffer)), reply))

\* a current_source_fixed_configuration that appends the compliance command before
\* the level command
Keithley2400_current_source_fixed_configuration_compliance_first(ctx, o, reply) ==
    IF IsKeithley2400(ctx) THEN
        LET g == Keithley2400_source_general_configuration(
                     o.auto_clear, o.autoclear_mode, o.auto_settle, o.settling_delay)
        IN  IF g.failure # "none" THEN Uncaught(ctx, g.failure)
            ELSE WriteAndCheck(ctx,
                    g.buffer \o <<":SOUR:FUNC CURR;", ":SOUR:CURR:MODE FIX;">>
                    \o (IF o.auto_range
                        THEN <<":SOUR:CURR:RANG:AUTO ON;">>
                        ELSE <<":SOUR:CURR:RANG:AUTO OFF;", ":SOUR:CURR:RANG ",
                               PyStr(o.manual_range)>>)
                    \o <<":SENS:VOLT:PROT ", PyStr(o.compliance_value), ";">>
                    \o (IF Spelled(o.set_level_mode, <<"i", "m", "m", "e", "d", "i", "a", "t", "e">>)
                        THEN <<":SOUR:CURR ", PyStr(o.source_level), ";">>
                        ELSE IF Spelled(o.set_level_mode, <<"t", "r", "i", "g", "g", "e", "r", "e", "d">>)
                        THEN <<":SOUR:CURR:TRIG ", PyStr(o.source_level), ";">>
                             \o (IF o.triggered_scaling
                                 THEN <<":SOUR:CURR:TRIG:SFAC ON;", ":SOUR:CURR:TRIG:SFAC ",
                                        PyStr(o.scaling_factor)>>
                                 ELSE <<":SOUR:CURR:TRIG:SFAC OFF;">>)
                        ELSE <<>>), reply)
    ELSE Handled(ctx, "IncorrectInstrumentError")

Keithley2400_current_source_fixed_configuration(ctx, o, reply) ==
    IF IsKeithley2400(ctx) THEN
        LET g == Keithley2400_source_general_configuration(
                     o.auto_clear, o.autoclear_mode, o.auto_settle, o.settling_delay)
        IN  IF g.failure # "none" THEN Uncaught(ctx, g.failure)
            ELSE WriteAndCheck(ctx,
                    g.buffer \o <<":SOUR:FUNC CURR;", ":SOUR:CURR:MODE FIX;">>
                    \o (IF o.auto_range
                        THEN <<":SOUR:CURR:RANG:AUTO ON;">>
                        ELSE <<":SOUR:CURR:RANG:AUTO OFF;", ":SOUR:CURR:RANG ",
                               PyStr(o.manual_range)>>)
                    \o (IF Spelled(o.set_level_mode, <<"i", "m", "m", "e", "d", "i", "a", "t", "e">>)
                        THEN <<":SOUR:CURR ", PyStr(o.source_level), ";">>
                        ELSE IF Spelled(o.set_level_mode, <<"t", "r", "i", "g", "g", "e", "r", "e", "d">>)
                        THEN <<":SOUR:CURR:TRIG ", PyStr(o.source_level), ";">>
                             \o (IF o.triggered_scaling
                                 THEN <<":SOUR:CURR:TRIG:SFAC ON;", ":SOUR:CURR:TRIG:SFAC ",
                                        PyStr(o.scaling_factor)>>
                                 ELSE <<":SOUR:CURR:TRIG:SFAC OFF;">>)
                        ELSE <<>>)
                    \o <<":SENS:VOLT:PROT ", PyStr(o.compliance_value), ";">>, reply)
    ELSE Handled(ctx, "IncorrectInstrumentError")

Keithley2400_voltage_source_fixed_configuration(ctx, o, reply) ==
    IF IsKeithley2400(ctx) THEN
        LET g == Keithley2400_source_general_configuration(
                     o.auto_clear, o.autoclear_mode, o.auto_settle, o.settling_delay)
        IN  IF g.failure # "none" THEN Uncaught(ctx, g.failure)
            ELSE IF ~Spelled(o.set_level_mode, <<"i", "m", "m", "e", "d", "i", "a", "t", "e">>)
                    /\ ~Spelled(o.set_level_mode, <<"t", "r", "i", "g", "g", "e", "r", "e", "d">>)
            THEN Uncaught(ctx, "SystemExit")
            ELSE WriteAndCheck(ctx,
                    g.buffer \o <<":SOUR:FUNC VOLT;", ":SOUR:VOLT:mode FIX;",
                                  ":SOUR:VOLT:PROT ", PyStr(o.voltage_protection), ";">>
                    \o (IF o.auto_range
                        THEN <<":SOUR:VOLT:RANG:AUTO ON;">>
                        ELSE <<":SOUR:VOLT:RANG:AUTO OFF;", ":SOUR:VOLT:RANG ",
                               PyStr(o.manual_range)>>)
                    \o (IF Spelled(o.set_level_mode, <<"i", "m", "m", "e", "d", "i", "a", "t", "e">>)
                        THEN <<":SOUR:VOLT ", PyStr(o.source_level), ";">>
                        ELSE <<":SOUR:VOLT:TRIG ", PyStr(o.source_level), ";">>
                             \o (IF o.triggered_scaling
                                 THEN <<":SOUR:VOLT:TRIG:SFAC ON;", ":SOUR:VOLT:TRIG:SFAC ",
                                        PyStr(o.scaling_factor)>>
                                 ELSE <<":SOUR:VOLT:TRIG:SFAC OFF;">>))
                    \o <<":SENS:CURR:PROT ", PyStr(o.compliance_value), ";">>, reply)
    ELSE Handled(ctx, "IncorrectInstrumentError")

Keithley2400_current_source_sweep_configuration(ctx, o, reply) ==
    IF IsKeithley2400(ctx) THEN
        LET g  == Keithley2400_source_general_configuration(
                      o.auto_clear, o.autoclear_mode, o.auto_settle, o.settling_delay)
            c1 == [ctx EXCEPT !.self.sweep_steps = <<o.points>>]
            w  == Keithley2400_sweep_configuration(
                      o.spacing, o.points, o.direction, o.sweep_range_mode,
                      o.abort_on_compliance)
        IN  IF g.failure # "none" THEN Uncaught(ctx, g.failure)
            ELSE IF w.failure # "none" THEN Uncaught(c1, w.failure)
            ELSE WriteAndCheck(c1,
                    g.buffer \o <<":SOUR:FUNC CURR;", ":SOUR:CURR:mode SWE;",
                                  ":SOUR:CURR:STAR ", PyStr(o.start_level), ";",
                                  ":SOUR:CURR:STOP ", PyStr(o.stop_level), ";">>
                    \o w.buffer
                    \o <<":SENS:VOLT:PROT ", PyStr(o.compliance_value), ";">>, reply)
    ELSE Handled(ctx, "IncorrectInstrumentError")

(***************************************************************************)
(* The arm, trigger, sense and display configuration operations.  A count  *)
(* attribute (arm_count, trigger_count) is <<>> while it is None.           *)
(***************************************************************************)
Keithley2400_arm_configuration(ctx, o, reply) ==
    IF IsKeithley2400(ctx) THEN
        IF o.count.value >= 1 THEN
            IF o.count.value <= 2500 THEN
                WriteAndCheck([ctx EXCEPT !.self.arm_count = <<o.count.value>>],
                    <<":ARM:COUN ", PyStr(o.count), ";", ":ARM:SOUR IMM;">>, reply)
            ELSE Handled(ctx, "Keithley2400TooManyArms")
        ELSE Handled(ctx, "Keithley2400NegativeArmCountError")
    ELSE Handled(ctx, "IncorrectInstrumentError")

\* 2500 // self.arm_count raises TypeError while arm_count is None; no except clause
\* of the operation names it
Keithley2400_trigger_configuration(ctx, o, reply) ==
    IF IsKeithley2400(ctx) THEN
        IF o.count.value >= 1 THEN
            IF ctx.self.arm_count = <<>> THEN Uncaught(ctx, "TypeError")
            ELSE IF o.count.value <= 2500 \div ctx.self.arm_count[1] THEN
                WriteAndCheck([ctx EXCEPT !.self.trigger_count = <<o.count.value>>],
                    <<":TRIG:SOUR IMM;", ":TRIG:COUN ", PyStr(o.count), ";">>
                    \o (IF o.delay.value # 0
                        THEN <<":TRIG:DEL ", PyStr(o.delay), ";">> ELSE <<>>), reply)
            ELSE Handled(ctx, "Keithley2400TooManyTriggers")
        ELSE Handled(ctx, "Keithley2400NegativeTriggerCountError")
    ELSE Handled(ctx, "IncorrectInstrumentError")

\* the write, the completion barrier and the error query stand inside the else
\* branch of "if auto_range": with auto_range the buffer is built and dropped
Keithley2400_current_sense_configuration(ctx, o, reply) ==
    IF IsKeithley2400(ctx) THEN
        IF o.auto_range THEN ctx
        ELSE WriteAndCheck(ctx,
                <<":SENS:FUNC:CONC ON;", ":SENS:FUNC:ALL;", ":SENS:CURR:RANG:AUTO OFF;",
                  ":SENS:CURR:RANG ", PyStr(o.manual_range), ";",
                  ":SENS:CURR:NPLC ", PyStr(o.NPLCs), ";">>, reply)
    ELSE Handled(ctx, "IncorrectInstrumentError")

Keithley2400_voltage_sense_configuration(ctx, o, reply) ==
    IF IsKeithley2400(ctx) THEN
        WriteAndCheck(ctx,
            <<":SENS:FUNC:CONC ON;", ":SENS:FUNC:ALL;">>
            \o (IF o.auto_range
                THEN <<":SENS:VOLT:RANG:AUTO ON;">>
                ELSE <<":SENS:VOLT:RANG:AUTO OFF;", ":SENS:VOLT:RANG ",
                       PyStr(o.manual_range), ";">>)
            \o <<":SENS:VOLT:NPLC ", PyStr(o.NPLCs), ";">>, reply)
    ELSE Handled(ctx, "IncorrectInstrumentError")

Keithley2400_display_configuration(ctx, o, reply) ==
    IF IsKeithley2400(ctx) THEN
        WriteAndCheck(ctx,
            IF o.enable_display
            THEN <<":DISP:ENAB ON;">>
                 \o (IF o.enable_state_display THEN <<":DISP:CND;">>
                     ELSE <<":DISP:DIG ", PyStr(o.digits), ";">>)
            ELSE <<":DISP:ENAB OFF;">>, reply)
    ELSE Handled(ctx, "IncorrectInstrumentError")

(***************************************************************************)
(* Keithley 6517A: the error query and the arm and trigger configuration.  *)
(***************************************************************************)
\* 'KEITHLEY' in self.identity and '6517A' in self.identity
IsKeithley6517A(ctx) == {"KEITHLEY", "6517A"} \subseteq ctx.self.identity

Keithley6517A_error_query(ctx, reply) ==
    IF IsKeithley6517A(ctx) THEN
        LET c1 == [Ask(ctx, <<":SYST:ERR?">>) EXCEPT !.self.last_internal_error = reply]
        IN  IF reply[1] # "0" THEN Uncaught(c1, "ReportInstrumentInternalError") ELSE c1
    ELSE Uncaught(ctx, "IncorrectInstrumentError")

\* the error query follows the write with no completion barrier between them
Keithley6517A_arm_configuration(ctx, o, reply) ==
    IF IsKeithley6517A(ctx) THEN
        Caught(Keithley6517A_error_query(
                   Write([ctx EXCEPT !.self.arm_count = <<o.count.value>>],
                         <<":ARM:SOUR IMM;", ":ARM:COUN ", PyStr(o.count), ";">>), reply))
    ELSE Handled(ctx, "IncorrectInstrumentError")

Keithley6517A_trigger_configuration(ctx, o, reply) ==
    IF IsKeithley6517A(ctx) THEN
        Caught(Keithley6517A_error_query(
                   Instruments_operation_complete_query(
                       Write([ctx EXCEPT !.self.trigger_count = <<o.count.value>>],
                             <<":TRIG:SOUR IMM;", ":TRIG:COUN ", PyStr(o.count), ";">>
                             \o (IF o.delay.value # 0
                                 THEN <<":TRIG:DEL ", PyStr(o.delay), ";">> ELSE <<>>))),
                   reply))
    ELSE Handled(ctx, "IncorrectInstrumentError")

(***************************************************************************)
(* The Keithley specification: a Keithley 2400 or Keithley 6517A profile    *)
(* after its constructor, driven by calls of its configuration operations. *)
(* Each call of a source configuration takes the defaults of the           *)
(* signature, or one of a few other option sets, with at most one option   *)
(* replaced.                                                               *)
(***************************************************************************)
current_source_fixed_defaults ==
    [auto_clear |-> FALSE, autoclear_mode |-> <<"A", "l", "w", "a", "y", "s">>, auto_settle |-> TRUE,
     settling_delay |-> PyInteger(0), auto_range |-> TRUE,
     manual_range |-> PyFloating(10000), source_level |-> PyFloating(1000),
     set_level_mode |-> <<"I", "m", "m", "e", "d", "i", "a", "t", "e">>, triggered_scaling |-> FALSE,
     scaling_factor |-> PyInteger(1), compliance_value |-> PyInteger(20)]

voltage_source_fixed_defaults ==
    [auto_clear |-> FALSE, autoclear_mode |-> <<"A", "l", "w", "a", "y", "s">>, auto_settle |-> TRUE,
     settling_delay |-> PyInteger(0), voltage_protection |-> PyInteger(200),
     auto_range |-> TRUE, manual_range |-> PyInteger(20), source_level |-> PyInteger(1),
     set_level_mode |-> <<"I", "m", "m", "e", "d", "i", "a", "t", "e">>, triggered_scaling |-> FALSE,
     scaling_factor |-> PyInteger(1), compliance_value |-> PyFloating(100)]

current_source_sweep_defaults ==
    [auto_clear |-> FALSE, autoclear_mode |-> <<"A", "l", "w", "a", "y", "s">>, auto_settle |-> TRUE,
     settling_delay |-> PyInteger(0), start_level |-> PyInteger(-1),
     stop_level |-> PyInteger(1), spacing |-> <<"L", "i", "n", "e", "a", "r">>, points |-> PyInteger(2500),
     direction |-> <<"U", "p">>, sweep_range_mode |-> <<"B", "e", "s", "t">>,
     abort_on_compliance |-> <<"N", "e", "v", "e", "r">>, compliance_value |-> PyFloating(100)]

\* auto_range=False, manual_range=1e-2, source_level=5e-3, compliance_value=10
ManualRangeOptions ==
    [current_source_fixed_defaults EXCEPT !.auto_range = FALSE,
        !.source_level = PyFloating(5000), !.compliance_value = PyInteger(10)]

\* a base with automatic clearing on and the level set on trigger
TriggeredOptions(defaults) ==
    [defaults EXCEPT !.auto_clear = TRUE, !.autoclear_mode = <<"o", "n", " ", "t", "r", "i", "g", "g", "e", "r">>,
        !.auto_settle = FALSE, !.set_level_mode = <<"t", "r", "i", "g", "g", "e", "r", "e", "d">>,
        !.triggered_scaling = TRUE]

Unrecognized == <<"b", "o", "g", "u", "s">>

\* the values an option is replaced with
Alternatives ==
    [auto_clear          |-> BOOLEAN,
     autoclear_mode      |-> {<<"a", "l", "w", "a", "y", "s">>, <<"A", "L", "W", "A", "Y", "S">>, <<"a", "L", "W", "A", "Y", "S">>, <<"O", "n", " ", "T", "r", "i", "g", "g", "e", "r">>, Unrecognized},
     auto_settle         |-> BOOLEAN,
     settling_delay      |-> {PyFloating(500000)},
     auto_range          |-> BOOLEAN,
     manual_range        |-> {PyFloating(10)},
     source_level        |-> {PyFloating(5000)},
     set_level_mode      |-> {<<"i", "m", "m", "e", "d", "i", "a", "t", "e">>, <<"I", "M", "M", "E", "D", "I", "A", "T", "E">>, <<"i", "M", "M", "E", "D", "I", "A", "T", "E">>, <<"T", "r", "i", "g", "g", "e", "r", "e", "d">>, Unrecognized},
     triggered_scaling   |-> BOOLEAN,
     scaling_factor      |-> {PyFloating(2000000)},
     compliance_value    |-> {PyInteger(10)},
     voltage_protection  |-> {PyInteger(100)},
     start_level         |-> {PyFloating(-500000)},
     stop_level          |-> {PyInteger(2)},
     spacing             |-> {<<"l", "i", "n", "e", "a", "r">>, <<"L", "O", "G", "A", "R", "I", "T", "H", "M", "I", "C">>, <<"l", "I", "n", "E", "a", "R">>, Unrecognized},
     points              |-> {PyInteger(10)},
     direction           |-> {<<"d", "o", "w", "n">>, <<"U", "P">>, Unrecognized},
     sweep_range_mode    |-> {<<"A", "u", "t", "o">>, <<"f", "i", "x", "e", "d">>, Unrecognized},
     abort_on_compliance |-> {<<"e", "a", "r", "l", "y">>, <<"L", "A", "T", "E">>, Unrecognized}]

\* base, and base with one option replaced
Vary(base) ==
    {base} \cup UNION {{[base EXCEPT ![k] = v] : v \in Alternatives[k]} : k \in DOMAIN base}

\* the option sets each operation is called with
current_source_fixed_options ==
    UNION {Vary(base) :
        base \in {current_source_fixed_defaults, ManualRangeOptions,
                   TriggeredOptions(current_source_fixed_defaults)}}

voltage_source_fixed_options ==
    UNION {Vary(base) :
        base \in {voltage_source_fixed_defaults,
                   TriggeredOptions(voltage_source_fixed_defaults)}}

current_source_sweep_options ==
    UNION {Vary(base) :
        base \in {current_source_sweep_defaults,
                   [current_source_sweep_defaults EXCEPT !.auto_clear = TRUE]}}

\* the fields of the ':SYST:ERR?' reply
ErrorReplies == {<<"0", "\"No error\"">>, <<"-113", "\"Undefined header\"">>}

\* the options of the arm, trigger, sense and display configuration operations
arm_options == {[count |-> PyInteger(n)] : n \in {0, 1, 2, 2501}}

trigger_options ==
    {[count |-> PyInteger(n), delay |-> d] :
        n \in {0, 1, 1250, 1251}, d \in {PyInteger(0), PyFloating(500000)}}

sense_options ==
    {[auto_range |-> a, manual_range |-> PyFloating(100), NPLCs |-> n] :
        a \in BOOLEAN, n \in {PyInteger(10), PyFloating(100000)}}

display_options ==
    {[enable_display |-> e, enable_state_display |-> s, digits |-> PyInteger(d)] :
        e, s \in BOOLEAN, d \in {5, 7}}

InitKeithley ==
    /\ model \in {"K2400", "K6517A"}
    /\ TableIdle
    /\ DecoderIdle
    /\ \E id \in {{"KEITHLEY", "2400"}, {"KEITHLEY", "6517A"}} :
          self = [identity |-> id, arm_count |-> <<>>, trigger_count |-> <<>>,
                  sweep_steps |-> <<>>, last_internal_error |-> <<>>]
    /\ instrument = [log |-> <<>>]
    /\ raised = <<>>
    /\ call = NoCall
    /\ repeated = FALSE

\* one call of configuration operation op with options o
Configure(op, o, reply, ctx) ==
    /\ call.n < MaxCalls
    /\ LET end == ctx IN
          /\ self' = end.self
          /\ instrument' = end.instrument
          /\ raised' = end.raised
          /\ call' = [op |-> op, n |-> call.n + 1, arg |-> o, env |-> reply,
                      failure |-> end.failure]
    /\ repeated' = (call.op = op /\ call.arg = o /\ call.env = reply)
    /\ UNCHANGED <<model, tableVars, decoderVars>>

Call_current_source_fixed_configuration ==
    model = "K2400" /\ \E o \in current_source_fixed_options, reply \in ErrorReplies :
      Configure("current_source_fixed_configuration", o, reply,
                Keithley2400_current_source_fixed_configuration(Enter, o, reply))

Call_voltage_source_fixed_configuration ==
    model = "K2400" /\ \E o \in voltage_source_fixed_options, reply \in ErrorReplies :
      Configure("voltage_source_fixed_configuration", o, reply,
                Keithley2400_voltage_source_fixed_configuration(Enter, o, reply))

Call_current_source_sweep_configuration ==
    model = "K2400" /\ \E o \in current_source_sweep_options, reply \in ErrorReplies :
      Configure("current_source_sweep_configuration", o, reply,
                Keithley2400_current_source_sweep_configuration(Enter, o, reply))

Call_arm_configuration ==
    \E o \in arm_options, reply \in ErrorReplies :
      \/ /\ model = "K2400"
         /\ Configure("arm_configuration", o, reply,
                      Keithley2400_arm_configuration(Enter, o, reply))
      \/ /\ model = "K6517A"
         /\ Configure("arm_configuration", o, reply,
                      Keithley6517A_arm_configuration(Enter, o, reply))

Call_trigger_configuration ==
    \E o \in trigger_options, reply \in ErrorReplies :
      \/ /\ model = "K2400"
         /\ Configure("trigger_configuration", o, reply,
                      Keithley2400_trigger_configuration(Enter, o, reply))
      \/ /\ model = "K6517A"
         /\ Configure("trigger_configuration", o, reply,
                      Keithley6517A_trigger_configuration(Enter, o, reply))

Call_current_sense_configuration ==
    model = "K2400" /\ \E o \in sense_options, reply \in ErrorReplies :
      Configure("current_sense_configuration", o, reply,
                Keithley2400_current_sense_configuration(Enter, o, reply))

Call_voltage_sense_configuration ==
    model = "K2400" /\ \E o \in sense_options, reply \in ErrorReplies :
      Configure("voltage_sense_configuration", o, reply,
                Keithley2400_voltage_sense_configuration(Enter, o, reply))

Call_display_configuration ==
    model = "K2400" /\ \E o \in display_options, reply \in ErrorReplies :
      Configure("display_configuration", o, reply,
                Keithley2400_display_configuration(Enter, o, reply))

NextKeithley ==
    \/ Call_current_source_fixed_configuration
    \/ Call_voltage_source_fixed_configuration
    \/ Call_current_source_sweep_configuration
    \/ Call_arm_configuration
    \/ Call_trigger_configuration
    \/ Call_current_sense_configuration
    \/ Call_voltage_sense_configuration
    \/ Call_display_configuration

SpecKeithley == InitKeithley /\ [][NextKeithley]_vars

(***************************************************************************)
(* The mnemonic-table specification: one table of a configuration          *)
(* operation, one spelling, and the lookup of the spelling in the          *)
(* dictionary type_dictionary gives.                                       *)
(***************************************************************************)
Tables ==
    {autoclear_table, spacing_table, direction_table, range_mode_table, abort_mode_table,
     mode_table}

RECURSIVE CaseVariants(_)
\* every upper/lower-case variant of a spelling
CaseVariants(s) ==
    IF s = <<>> THEN {<<>>}
    ELSE {<<c>> \o t : c \in {LowerChar(s[1]), UpperChar(s[1])}, t \in CaseVariants(Tail(s))}

Spellings(table) ==
    {Unrecognized} \cup UNION {CaseVariants(table.keys[i]) : i \in DOMAIN table.keys}

InitMnemonic ==
    /\ model = "tables"
    /\ TableIdle
    /\ DecoderIdle
    /\ \E table \in Tables : \E spelling \in Spellings(table) :
          self = [identity |-> {}, table |-> table, spelling |-> spelling]
    /\ instrument = [log |-> <<>>]
    /\ raised = <<>>
    /\ call = NoCall
    /\ repeated = FALSE

\* dict(self.type_dictionary(keys, buffers))[spelling]
LookUp ==
    /\ call.op = "none"
    /\ LET r == GetItem(TypeDict(self.table), self.spelling) IN
          call' = [op |-> "lookup", n |-> 1, failure |-> r.failure, value |-> r.value]
    /\ UNCHANGED <<model, tableVars, decoderVars, self, instrument, raised, repeated>>

NextMnemonic == LookUp

SpecMnemonic == InitMnemonic /\ [][NextMnemonic]_vars

(***************************************************************************)
(* Claims about the Keithley 2400 source configuration and the mnemonic    *)
(* tables.                                                                 *)
(***************************************************************************)
\* the buffers the last call wrote
Writes == {i \in DOMAIN instrument.log : instrument.log[i].op = "write"}

Buffer == instrument.log[CHOOSE i \in Writes : TRUE].text

\* fragment frag stands in buffer at piece i
Holds(buffer, frag, i) ==
    i + Len(frag) - 1 <= Len(buffer) /\ SubSeq(buffer, i, i + Len(frag) - 1) = frag

RECURSIVE InOrder(_, _, _)
\* the fragments stand in buffer one after the other, from piece i on
InOrder(buffer, frags, i) ==
    frags = <<>> \/
        \E j \in i..Len(buffer) :
            Holds(buffer, frags[1], j) /\ InOrder(buffer, Tail(frags), j + Len(frags[1]))

RangeFragment(o) ==
    IF o.auto_range THEN <<":SOUR:CURR:RANG:AUTO ON;">>
    ELSE <<":SOUR:CURR:RANG:AUTO OFF;", ":SOUR:CURR:RANG ", PyStr(o.manual_range)>>

ImmediateFragment(o) == <<":SOUR:CURR ", PyStr(o.source_level), ";">>

ComplianceFragment(o) == <<":SENS:VOLT:PROT ", PyStr(o.compliance_value), ";">>

\* the fragments of the spec's example, as text
ExampleFragments ==
    << <<":SOUR:FUNC CURR;">>, <<":SOUR:CURR:RANG:AUTO OFF;", ":SOUR:CURR:RANG ", "0.01">>,
       <<":SOUR:CURR ", "0.005", ";">>, <<":SENS:VOLT:PROT ", "10", ";">> >>

WroteCurrentSourceFixed == call.op = "current_source_fixed_configuration" /\ Writes # {}

LevelFragment(o) ==
    IF Spelled(o.set_level_mode, <<"i", "m", "m", "e", "d", "i", "a", "t", "e">>) THEN ImmediateFragment(o)
    ELSE IF Spelled(o.set_level_mode, <<"t", "r", "i", "g", "g", "e", "r", "e", "d">>)
    THEN <<":SOUR:CURR:TRIG ", PyStr(o.source_level), ";">>
    ELSE <<>>

Recognized(option) ==
    CASE option = "autoclear_mode"      -> DOMAIN autoclear_types
      [] option = "set_level_mode"      ->
            UNION {{w, PyTitle(w), PyUpper(w)} :
                      w \in {<<"i", "m", "m", "e", "d", "i", "a", "t", "e">>,
                             <<"t", "r", "i", "g", "g", "e", "r", "e", "d">>}}
      [] option = "spacing"             -> DOMAIN spacing_types
      [] option = "direction"           -> DOMAIN directions
      [] option = "sweep_range_mode"    -> DOMAIN range_modes
      [] option = "abort_on_compliance" -> DOMAIN abort_modes

EnumOptions ==
    {"autoclear_mode", "set_level_mode", "spacing", "direction", "sweep_range_mode",
     "abort_on_compliance"}

\* C9: when a configuration operation is called on a Keithley 2400 with an enum-like
\* option spelled in a way its mnemonic table does not hold, the call ends in a
\* failure and writes no buffer; so does current_source_fixed_configuration called
\* with an unrecognized set_level_mode.
C9_UnrecognizedSpellingWritesNothing ==
    (call.op # "none" /\ {"KEITHLEY", "2400"} \subseteq self.identity) =>
        \A option \in EnumOptions \cap DOMAIN call.arg :
            call.arg[option] \notin Recognized(option) =>
                /\ call.failure # "none"
                /\ Writes = {}

\* the keys of the looked-up table the spelling is a case variant of
VariantOf == {i \in DOMAIN self.table.keys : PyLower(self.spelling) = PyLower(self.table.keys[i])}

Matching ==
    \/ model = "K2400" /\ {"KEITHLEY", "2400"} \subseteq self.identity
    \/ model = "K6517A" /\ {"KEITHLEY", "6517A"} \subseteq self.identity

\* the last call's options are ones the operation documents: recognized spellings,
\* and on the 2400 an arm count of 1..2500 and a trigger count of 1..2500 // arm_count
ValidOptions ==
    /\ \A option \in EnumOptions \cap DOMAIN call.arg :
          call.arg[option] \in Recognized(option)
    /\ (model = "K2400" /\ call.op = "arm_configuration") =>
          call.arg.count.value \in 1..2500
    /\ (model = "K2400" /\ call.op = "trigger_configuration") =>
          /\ self.arm_count # <<>>
          /\ call.arg.count.value >= 1
          /\ call.arg.count.value <= 2500 \div self.arm_count[1]

\* C11: a configuration operation of a Keithley 2400 or 6517A profile, called with
\* valid options on the matching instrument, sends exactly one write of its
\* buffer, then the query '*OPC?', then the query ':SYST:ERR?'.
C11_WriteBarrierErrorQuery ==
    (call.op # "none" /\ Matching /\ ValidOptions) =>
        /\ Len(instrument.log) = 3
        /\ instrument.log[1].op = "write"
        /\ instrument.log[2] = [op |-> "query", text |-> <<"*OPC?">>]
        /\ instrument.log[3] = [op |-> "query", text |-> <<":SYST:ERR?">>]

\* C12: when the ':SYST:ERR?' reply after a configuration write has a first field
\* other than '0', the operation ends at its caller with a
\* reported-internal-instrument-error failure and last_internal_error holds the
\* split reply.
C12_InternalErrorDelivered ==
    (call.op # "none" /\ Matching /\ Writes # {} /\ call.env[1] # "0") =>
        /\ call.failure = "ReportInstrumentInternalError"
        /\ self.last_internal_error = call.env

(***************************************************************************)
(* The Oxford profiles in use: the inherited Cryostat operations, the      *)
(* status reads, the steps of the close sequences and the close            *)
(* sequences.  Here a call's state carries, beside self and instrument,    *)
(* self.messages, self.last_queried_status (<<>> while it is None) and     *)
(* self.last_decodified_status.  The device answers a call as env says:    *)
(* env.status is its reply to 'X', env.refused tells whether it rejects    *)
(* the 'C' and '!' commands, env.kind and env.value give its reply to a    *)
(* read-back query as above.  A rejection is the command letter followed   *)
(* by '?'.                                                                 *)
(***************************************************************************)
\* run the rest of a method unless an exception is on its way out
Then(ctx, rest(_)) == IF ctx.failure # "none" THEN ctx ELSE rest(ctx)

\* string[i], for a string or None
PyItem(string, i) ==
    IF string = <<>> THEN [failure |-> "TypeError", value |-> None]
    ELSE IF i >= Len(string) THEN [failure |-> "IndexError", value |-> None]
    ELSE [failure |-> "none", value |-> string[i + 1]]

\* the reply to a command that sets something
Acknowledge(letter, env) == IF env.refused THEN <<letter, "?">> ELSE <<letter>>

\* the reply to the query of a measured quantity
Measure(env) ==
    IF env.kind = "reject" THEN <<"R", "?">> ELSE <<"R">> \o FormatFixed(env.value, 4)

\* the not-responding exception an ILM, IPS or ITC operation names in its except clause
NotResponding(token) ==
    CASE token = "ILM" -> "LMNotResponding"
      [] token = "IPS" -> "PSNotResponding"
      [] token = "ITC" -> "TCNotResponding"

\* the if/elif chain on self.identity that picks the not-responding exception, under
\* "except ... as error: error.error_handler(); raise"; an identity that names none
\* of the three profiles raises nothing
Cryostat_not_responding(ctx) ==
    IF "ILM" \in ctx.self.identity THEN Uncaught(ctx, "LMNotResponding")
    ELSE IF "IPS" \in ctx.self.identity THEN Uncaught(ctx, "PSNotResponding")
    ELSE IF "ITC" \in ctx.self.identity THEN Uncaught(ctx, "TCNotResponding")
    ELSE ctx

Cryostat_set_control_mode(ctx, remote, locked, env) ==
    LET c1 == Query(ctx, "C", IF remote THEN (IF locked THEN <<"1">> ELSE <<"3">>)
                              ELSE (IF locked THEN <<"0">> ELSE <<"2">>))
    IN  IF "?" \in Range(Acknowledge("C", env)) THEN Cryostat_not_responding(c1) ELSE c1

Cryostat_get_status_string(ctx, env) ==
    LET c1 == [Query(ctx, "X", <<>>) EXCEPT !.last_queried_status = env.status]
    IN  IF "?" \in Range(env.status) THEN Cryostat_not_responding(c1) ELSE c1

\* self.instrument.close()
Close(ctx) ==
    [ctx EXCEPT !.instrument.log = Append(@, [op |-> "close", text |-> <<>>]),
                !.instrument.open = FALSE]

\* a _general_close_ that releases the handle before it sets the control mode
Cryostat_general_close_release_first(ctx, env) ==
    Cryostat_set_control_mode(Close(ctx), FALSE, FALSE, env)

Cryostat_general_close(ctx, env) ==
    Then(Cryostat_set_control_mode(ctx, FALSE, FALSE, env), Close)

\* self._status_decoder_(self.last_queried_status): the phrases of the fields decoded
\* before a lookup fails stay in last_decodified_status
Decode(ctx, m) ==
    LET r  == StatusDecoder(m, ctx.messages, ctx.last_queried_status)
        c1 == [ctx EXCEPT !.last_decodified_status = r.message]
    IN  IF r.failure = "none" THEN c1 ELSE Uncaught(c1, r.failure)

\* no identity check stands before the write
OxfordIPS_set_communication_protocol(ctx, extended_resolution, line_feed) ==
    [Write(ctx, ctx.self.buffer_radix
                \o (IF line_feed THEN (IF extended_resolution THEN <<"Q", "6">> ELSE <<"Q", "2">>)
                    ELSE (IF extended_resolution THEN <<"Q", "4">> ELSE <<"Q", "0">>)))
        EXCEPT !.instrument.read_termination = IF line_feed THEN "\r\n" ELSE "\r"]

\* OxfordITC.set_communication_protocol and OxfordILM.set_communication_protocol,
\* token being 'ITC' or 'ILM'
Oxford_set_communication_protocol(ctx, token, line_feed) ==
    IF token \in ctx.self.identity THEN
        [Write(ctx, ctx.self.buffer_radix \o (IF line_feed THEN <<"Q", "2">> ELSE <<"Q", "0">>))
            EXCEPT !.instrument.read_termination = IF line_feed THEN "\r\n" ELSE "\r"]
    ELSE Handled(ctx, "IncorrectInstrumentError")

\* the IPS readings that come from 'R<probe>' and land in self.<attribute>:
\* get_output_current_reading ('R0', output_current) and
\* get_persistent_current_reading ('R16', persistent_current)
OxfordIPS_get_reading(ctx, probe, attribute, env) ==
    IF "IPS" \in ctx.self.identity THEN
        LET c1     == Query(ctx, "R", probe)
            string == PyFrom(Measure(env), 1)
        IN  IF "?" \in Range(string) THEN Swallowed(c1, "PSNotResponding")
            ELSE [c1 EXCEPT !.self[attribute] = Reading(PyFloat(string))]
    ELSE Swallowed(ctx, "IncorrectInstrumentError")

OxfordIPS_get_status(ctx, env) ==
    IF "IPS" \in ctx.self.identity THEN
        LET c1 == [Query(ctx, "X", <<>>) EXCEPT !.last_queried_status = env.status]
        IN  IF "?" \in Range(env.status) THEN Swallowed(c1, "PSNotResponding")
            ELSE Decode(c1, "IPS")
    ELSE Swallowed(ctx, "IncorrectInstrumentError")

\* OxfordITC.get_status and OxfordILM.get_status, token being 'ITC' or 'ILM': the
\* not-responding exception get_status_string re-raises is caught here
Oxford_get_status(ctx, token, env) ==
    IF token \in ctx.self.identity THEN
        LET c1 == Cryostat_get_status_string(ctx, env)
        IN  IF c1.failure = "none" THEN Decode(c1, token)
            ELSE IF c1.failure = NotResponding(token) THEN Caught(c1)
            ELSE c1
    ELSE Handled(ctx, "IncorrectInstrumentError")

\* the characters a reply to 'X' is made of
StatusCharacters == UpperHex \cup {"X", "A", "C", "H", "M", "P", "S", "L", "R", "?"}

\* the check of status character i that follows a command, raising (and letting
\* nothing out) when the character is one of wrong; a status too short, or still
\* None, raises what no except clause of the operation names
CheckStatus(ctx, i, wrong) ==
    LET item == PyItem(ctx.last_queried_status, i) IN
    IF item.failure # "none" THEN Uncaught(ctx, item.failure)
    ELSE IF item.value \in wrong THEN Swallowed(ctx, "PSNotResponding")
    ELSE ctx

OxfordIPS_set_switch_heater(ctx, opened, env) ==
    IF "IPS" \in ctx.self.identity THEN
        Then(OxfordIPS_get_status(Query(ctx, "H", IF opened THEN <<"1">> ELSE <<"0">>), env),
             LAMBDA c : CheckStatus(c, 8, {h \in StatusCharacters :
                                              \/ opened /\ h # "1"
                                              \/ ~opened /\ (h = "0" \/ h = "2")}))
    ELSE Swallowed(ctx, "IncorrectInstrumentError")

OxfordIPS_set_activity(ctx, hold, to_set_point, to_zero, clamped, env) ==
    IF "IPS" \in ctx.self.identity THEN
        LET c1 == IF hold THEN Query(ctx, "A", <<"0">>)
                  ELSE IF to_set_point THEN Query(ctx, "A", <<"1">>)
                  ELSE IF to_zero THEN Query(ctx, "A", <<"2">>)
                  ELSE IF clamped THEN Query(ctx, "A", <<"4">>)
                  ELSE ctx
        IN  Then(OxfordIPS_get_status(c1, env),
                 LAMBDA c : IF hold \/ to_set_point \/ to_zero \/ clamped
                            THEN CheckStatus(c, 4, {a \in StatusCharacters :
                                                        \/ hold /\ a # "0"
                                                        \/ to_set_point /\ a # "1"
                                                        \/ to_zero /\ a # "2"
                                                        \/ clamped /\ a # "4"})
                            ELSE c)
    ELSE Swallowed(ctx, "IncorrectInstrumentError")

OxfordIPS_close(ctx, env) ==
    Then(OxfordIPS_set_switch_heater(ctx, FALSE, env),
         LAMBDA c1 : Then(OxfordIPS_set_activity(c1, FALSE, FALSE, FALSE, TRUE, env),
                          LAMBDA c2 : Cryostat_general_close(c2, env)))

\* the ITC readings that come from 'R<probe>' and land in self.<attribute>:
\* get_heater_operating_point_reading ('R5', answering what 'O' set) and
\* get_needle_valve_operating_point_reading ('R7', answering what 'G' set)
OxfordITC_get_reading(ctx, letter, probe, attribute, env) ==
    IF "ITC" \in ctx.self.identity THEN
        LET c1     == Query(ctx, "R", probe)
            string == PyFrom(Reply(c1, letter, env), 1)
        IN  IF "?" \in Range(string) THEN Handled(c1, "TCNotResponding")
            ELSE [c1 EXCEPT !.self[attribute] = Reading(PyFloat(string))]
    ELSE Handled(ctx, "IncorrectInstrumentError")

\* set_manual_heater ('O', 'R5', heater_operating_point) and set_manual_gas_flow
\* ('G', 'R7', needle_valve_operating_point)
OxfordITC_set_manual_output(ctx, letter, probe, attribute, percentage, env) ==
    IF "ITC" \in ctx.self.identity THEN
        IF percentage >= 0 /\ percentage <= 100 * Micro THEN
            LET c1 == Query(ctx, letter, FormatG(percentage))
                c2 == OxfordITC_get_reading(c1, letter, probe, attribute, env)
            IN  IF c2.self[attribute] # Reading(percentage)
                THEN Handled(c2, "TCNotResponding") ELSE c2
        ELSE Handled(ctx, "TCWrongPercentage")
    ELSE Handled(ctx, "IncorrectInstrumentError")

\* no try block stands around the status character: what float() or the subscript
\* raises leaves the operation
OxfordITC_get_temperature_control_mode_reading(ctx, env) ==
    Then(Oxford_get_status(ctx, "ITC", env),
         LAMBDA c :
            LET item == PyItem(c.last_queried_status, 3) IN
            IF item.failure # "none" THEN Uncaught(c, item.failure)
            ELSE IF item.value \notin {"0", "1", "2", "3", "4", "5", "6", "7", "8", "9"}
                 THEN Uncaught(c, "ValueError")
            ELSE IF item.value \in {"0", "1", "2", "3"}
                 THEN [c EXCEPT !.self.heater_automatic_control =
                                    <<item.value \in {"1", "3"}>>,
                                !.self.needle_valve_automatic_control =
                                    <<item.value \in {"2", "3"}>>]
            ELSE c)

OxfordITC_set_temperature_control_mode(ctx, auto_heater, auto_gas_flow, env) ==
    IF "ITC" \in ctx.self.identity THEN
        LET c1 == Query(ctx, "A", IF auto_heater
                                  THEN (IF auto_gas_flow THEN <<"3">> ELSE <<"1">>)
                                  ELSE (IF auto_gas_flow THEN <<"2">> ELSE <<"0">>))
        IN  Then(OxfordITC_get_temperature_control_mode_reading(c1, env),
                 LAMBDA c : IF ~(/\ c.self.heater_automatic_control = <<auto_heater>>
                                 /\ c.self.needle_valve_automatic_control = <<auto_gas_flow>>)
                            THEN Handled(c, "TCNotResponding") ELSE c)
    ELSE Handled(ctx, "IncorrectInstrumentError")

\* float(self.last_queried_status[7:9])
OxfordITC_get_sweep_step_reading(ctx, env) ==
    Then(Oxford_get_status(ctx, "ITC", env),
         LAMBDA c :
            IF c.last_queried_status = <<>> THEN Uncaught(c, "TypeError")
            ELSE LET step == PySlice(c.last_queried_status, 7, 9) IN
                 IF step = <<>> \/ \E i \in DOMAIN step :
                        step[i] \notin {"0", "1", "2", "3", "4", "5", "6", "7", "8", "9"}
                 THEN Uncaught(c, "ValueError")
                 ELSE [c EXCEPT !.self.sweep_step = Reading(PyFloat(step))])

\* the read-back the operation calls is self.get_sweep_reading(), a name the class
\* does not define: the call raises AttributeError, which no except clause names
OxfordITC_set_sweep_command(ctx, stop_sweep, starting_point, env) ==
    IF "ITC" \in ctx.self.identity THEN
        IF starting_point >= 1 /\ starting_point <= 32 THEN
            Uncaught(Query(ctx, "S", IF stop_sweep THEN <<"0">>
                                     ELSE FormatG(starting_point * Micro)),
                     "AttributeError")
        ELSE Handled(ctx, "TCWrongSweepStartingPoint")
    ELSE Handled(ctx, "IncorrectInstrumentError")

OxfordITC_close(ctx, env) ==
    Then(OxfordITC_set_temperature_control_mode(ctx, FALSE, FALSE, env), LAMBDA c1 :
    Then(OxfordITC_set_temperature_set_point(c1, 0, env), LAMBDA c2 :
    Then(OxfordITC_set_manual_output(c2, "O", <<"5">>, "heater_operating_point", 0, env),
         LAMBDA c3 :
    Then(OxfordITC_set_manual_output(c3, "G", <<"7">>, "needle_valve_operating_point", 0, env),
         LAMBDA c4 : Cryostat_general_close(c4, env)))))

\* the position comes back in tenths
OxfordILM_get_needle_valve_position_reading(ctx, env) ==
    IF "ILM" \in ctx.self.identity THEN
        LET c1     == Query(ctx, "R", <<"1", "0">>)
            string == PyFrom(Reply(c1, "G", env), 1)
        IN  IF "?" \in Range(string) THEN Handled(c1, "LMNotResponding")
            ELSE [c1 EXCEPT !.self.needle_valve_position = Reading(PyFloat(string) \div 10)]
    ELSE Handled(ctx, "IncorrectInstrumentError")

OxfordILM_set_needle_valve_position(ctx, position, env) ==
    IF "ILM" \in ctx.self.identity THEN
        LET c1 == Query(ctx, "G", FormatG(position * 10))
            c2 == OxfordILM_get_needle_valve_position_reading(c1, env)
        IN  IF c2.self.needle_valve_position # Reading(position)
            THEN Handled(c2, "LMNotResponding") ELSE c2
    ELSE Handled(ctx, "IncorrectInstrumentError")

\* a character of the status compared with an int, as in
\* "self.last_queried_status[1] == 0": a str equals no int
StrEqualsInt(character, n) == FALSE

\* get_channel_1_level_reading, get_channel_2_level_reading and
\* get_channel_3_level_reading, k being 1, 2 or 3: the three differ in k alone, and
\* each reads the usage digit of its low-level checks at index 1
OxfordILM_get_channel_level_reading(ctx, k, env) ==
    IF "ILM" \in ctx.self.identity THEN
        Then(Oxford_get_status(ctx, "ILM", env),
             LAMBDA c :
                LET item == PyItem(c.last_queried_status, k) IN
                IF item.failure # "none" THEN Uncaught(c, item.failure)
                ELSE IF StrEqualsInt(item.value, 0) THEN Handled(c, "LMChannelNotUsed")
                ELSE IF StrEqualsInt(item.value, 9) THEN Handled(c, "LMErrorOnChannel")
                ELSE LET c1     == Query(c, "R", <<ToString(k)>>)
                         string == PyFrom(Measure(env), 1)
                     IN  IF "?" \in Range(string) THEN Handled(c1, "LMNotResponding")
                         ELSE LET level == PyFloat(string) \div 10
                                  c2    == [c1 EXCEPT !.self.channel_level[k] = Reading(level)]
                                  usage == PyItem(c2.last_queried_status, 1).value
                              IN  IF /\ level <= 20 * Micro
                                     /\ usage \in {"2", "3"}
                                     /\ ~c2.self.ignore_low_LHe_level
                                  THEN Handled(c2, "Low_LHe_level")
                                  ELSE IF level <= 10 * Micro /\ usage = "1"
                                  THEN Handled(c2, "Low_LN2_level")
                                  ELSE c2)
    ELSE Handled(ctx, "IncorrectInstrumentError")

OxfordILM_close(ctx, env) ==
    Then(OxfordILM_set_needle_valve_position(ctx, 0, env),
         LAMBDA c : Cryostat_general_close(c, env))

\* the module never imports time: the call of time.sleep raises NameError
time_sleep(ctx) == Uncaught(ctx, "NameError")

\* "while not (self.last_queried_status[11] == '0'): time.sleep(1); self.get_status()"
PollSweep(ctx) ==
    LET item == PyItem(ctx.last_queried_status, 11) IN
    IF item.failure # "none" THEN Uncaught(ctx, item.failure)
    ELSE IF item.value # "0" THEN time_sleep(ctx)
    ELSE ctx

OxfordIPS_set_non_persistent_current(ctx, current, env) ==
    LET Ramp(c) ==
            Then(OxfordIPS_set_target_current(c, current, env), LAMBDA c1 :
            Then(OxfordIPS_get_status(c1, env), PollSweep))
        \* self.set_target_current(self.persistent_current), whose abs() rejects None
        Align(c) ==
            IF c.self.current_set_point = c.self.persistent_current THEN c
            ELSE IF c.self.persistent_current = NoReading THEN Uncaught(c, "TypeError")
            ELSE OxfordIPS_set_target_current(c, c.self.persistent_current[1], env)
        ToSetPoint(c) ==
            LET item == PyItem(c.last_queried_status, 4) IN
            IF item.failure # "none" THEN Uncaught(c, item.failure)
            ELSE IF item.value # "1"
                 THEN Then(OxfordIPS_set_activity(c, FALSE, TRUE, FALSE, FALSE, env), LAMBDA c1 :
                      Then(OxfordIPS_get_status(c1, env), PollSweep))
            ELSE c
        OpenHeater(c) ==
            Then(OxfordIPS_get_current_set_point_reading(c, env), LAMBDA c1 :
            Then(OxfordIPS_get_reading(c1, <<"1", "6">>, "persistent_current", env), LAMBDA c2 :
            Then(Align(c2), LAMBDA c3 :
            Then(ToSetPoint(c3), LAMBDA c4 :
            Then(OxfordIPS_set_switch_heater(c4, TRUE, env), time_sleep)))))
    IN  Then(OxfordIPS_get_status(ctx, env), LAMBDA c0 :
            LET item == PyItem(c0.last_queried_status, 8) IN
            IF item.failure # "none" THEN Uncaught(c0, item.failure)
            ELSE IF item.value # "1" THEN Then(OpenHeater(c0), Ramp)
            ELSE Ramp(c0))

\* the heater is opened as set_non_persistent_current opens it; after the sweep it is
\* closed, and time.sleep(20) stands before the activity to-zero
OxfordIPS_set_persistent_current(ctx, current, env) ==
    LET Persist(c) ==
            Then(OxfordIPS_set_target_current(c, current, env), LAMBDA c1 :
            Then(OxfordIPS_get_status(c1, env), LAMBDA c2 :
            Then(PollSweep(c2), LAMBDA c3 :
            Then(OxfordIPS_set_switch_heater(c3, FALSE, env), LAMBDA c4 :
            Then(time_sleep(c4), LAMBDA c5 :
                 OxfordIPS_set_activity(c5, FALSE, FALSE, TRUE, FALSE, env))))))
        Align(c) ==
            IF c.self.current_set_point = c.self.persistent_current THEN c
            ELSE IF c.self.persistent_current = NoReading THEN Uncaught(c, "TypeError")
            ELSE OxfordIPS_set_target_current(c, c.self.persistent_current[1], env)
        ToSetPoint(c) ==
            LET item == PyItem(c.last_queried_status, 4) IN
            IF item.failure # "none" THEN Uncaught(c, item.failure)
            ELSE IF item.value # "1"
                 THEN Then(OxfordIPS_set_activity(c, FALSE, TRUE, FALSE, FALSE, env), LAMBDA c1 :
                      Then(OxfordIPS_get_status(c1, env), PollSweep))
            ELSE c
        OpenHeater(c) ==
            Then(OxfordIPS_get_current_set_point_reading(c, env), LAMBDA c1 :
            Then(OxfordIPS_get_reading(c1, <<"1", "6">>, "persistent_current", env), LAMBDA c2 :
            Then(Align(c2), LAMBDA c3 :
            Then(ToSetPoint(c3), LAMBDA c4 :
            Then(OxfordIPS_set_switch_heater(c4, TRUE, env), time_sleep)))))
    IN  Then(OxfordIPS_get_status(ctx, env), LAMBDA c0 :
            LET item == PyItem(c0.last_queried_status, 8) IN
            IF item.failure # "none" THEN Uncaught(c0, item.failure)
            ELSE IF item.value # "1" THEN Then(OpenHeater(c0), Persist)
            ELSE Persist(c0))

\* the identity the reply to 'V' gives; on a rejection the isinstance test names a
\* class the module never imports
Cryostat_get_version_string(ctx, version, env) ==
    LET c1 == Query(ctx, "V", <<>>) IN
    IF env.refused THEN Uncaught([c1 EXCEPT !.self.identity = {"?"}], "NameError")
    ELSE [c1 EXCEPT !.self.identity = version]

\* "adress >= 0 or adress <= 8" holds of every number.  One element of the except
\* clause is an instance, not a class: Python 3 answers any exception that reaches
\* the clause with TypeError, Python 2 skips the instance when matching
Cryostat_set_ISOBUS_adress(ctx, adress, interpreter, env) ==
    LET c1 == IF adress >= 0 \/ adress <= 8 * Micro
              THEN Query(ctx, "!", FormatG(adress)) ELSE ctx
        c2 == IF "?" \in Range(Acknowledge("!", env)) THEN
                  IF "ILM" \in c1.self.identity THEN Uncaught(c1, "LMNotResponding")
                  ELSE IF "IPS" \in c1.self.identity THEN Uncaught(c1, "PSNotResponding")
                  ELSE IF "ITC" \in c1.self.identity THEN Uncaught(c1, "TCNotResponding")
                  ELSE [c1 EXCEPT !.self.buffer_radix = <<"@">> \o FormatG(adress)]
              ELSE Uncaught(c1, "CryostatIncorrectISOBUSAdress")
    IN  IF c2.failure = "none" THEN c2
        ELSE IF interpreter = "python3" THEN Uncaught(c2, "TypeError")
        ELSE IF c2.failure = "CryostatIncorrectISOBUSAdress" THEN c2
        ELSE Caught(c2)

(***************************************************************************)
(* The profile specification: an IPS, ILM or ITC profile after its         *)
(* constructor, driven by calls of its operations until it is closed.      *)
(* An ILM or ITC constructor ends only when the identity names the         *)
(* profile and the status decodes; an IPS constructor ends on any          *)
(* identity, its status still None when the identity names another         *)
(* profile.                                                                *)
(***************************************************************************)
IPSStatus(a, h, n) ==
    <<"X", "0", "0", "A", a, "C", "3", "H", h, "M", "0", n, "P", "0", "1">>

ITCStatus(a, nn) ==
    <<"X", "0", "A", a, "C", "3", "S">> \o nn \o <<"H", "1", "L", "0">>

\* the status of an idle device, the one the constructor read
IdleStatus ==
    [IPS |-> IPSStatus("0", "0", "0"),
     ILM |-> <<"X", "0", "0", "0", "S", "0", "0", "0", "0", "0", "0", "R", "0", "0">>,
     ITC |-> ITCStatus("0", <<"0", "0">>)]

\* what a device may answer 'X' with: its idle status, for an IPS the status with
\* the switch heater on at rest and in a sweep, for an ITC the status of sweep step
\* 5, and the rejection
DeviceStatuses ==
    [m \in Models |->
        {IdleStatus[m], <<"X", "?">>}
            \cup (IF m = "IPS" THEN {IPSStatus("1", "1", "0"), IPSStatus("1", "1", "1")}
                  ELSE {})
            \cup (IF m = "ITC" THEN {ITCStatus("0", <<"0", "5">>)} ELSE {})]

\* what a device does with one call
Environments(kinds, statuses, refusals) ==
    {[kind |-> e.kind, value |-> e.value, status |-> s, refused |-> r] :
        e \in {e \in Envs : e.kind \in kinds}, s \in statuses, r \in refusals}

NoStatus == <<"X">>

\* the ISOBUS arguments of the constructor: by default neither master nor linked;
\* for a linked instrument the documented addresses 1 and 8 and the address 9, which
\* the constructor formats like the others.  (With ISOBUS_linked set and the address
\* left at its default None the format raises and no profile exists.)
ISOBUSArguments ==
    {[ISOBUS_master |-> m, ISOBUS_linked |-> l, ISOBUS_adress |-> 1] :
        m \in BOOLEAN, l \in BOOLEAN}
    \cup {[ISOBUS_master |-> FALSE, ISOBUS_linked |-> TRUE, ISOBUS_adress |-> a] :
              a \in {8, 9}}

InitCryostat ==
    /\ model \in Models
    /\ messages = MessagesDictionary(model)
    /\ build_i = Len(Assignments(model))
    /\ assigned_twice = FALSE
    /\ \E id \in {{model}} \cup (IF model = "IPS" THEN {{"ITC"}} ELSE {}),
          isobus \in ISOBUSArguments, p \in {NoReading, Reading(Micro)},
          status \in {IdleStatus[model]} :
            /\ self = [identity |-> id,
                       buffer_radix |-> buffer_radix(isobus.ISOBUS_master,
                                                     isobus.ISOBUS_linked,
                                                     isobus.ISOBUS_adress),
                       extended_resolution |-> FALSE,
                       current_set_point |->
                           IF id = {"IPS"} THEN Reading(PyFloat(PowerOnTold.I)) ELSE NoReading,
                       field_set_point |-> NoReading,
                       temperature_set_point |-> NoReading,
                       output_current |-> NoReading,
                       persistent_current |-> IF id = {"IPS"} THEN p ELSE NoReading,
                       heater_operating_point |-> NoReading,
                       needle_valve_operating_point |-> NoReading,
                       needle_valve_position |-> NoReading,
                       channel_level |-> [k \in 1..3 |-> NoReading],
                       ignore_low_LHe_level |-> FALSE,
                       sweep_step |->
                           IF model = "ITC" THEN Reading(PyFloat(PySlice(status, 7, 9)))
                           ELSE NoReading,
                       heater_automatic_control |->
                           IF model = "ITC" THEN <<status[4] = "1">> ELSE <<>>,
                       needle_valve_automatic_control |->
                           IF model = "ITC" THEN <<FALSE>> ELSE <<>>]
            /\ last_queried_status = IF model \in id THEN status ELSE <<>>
            /\ last_decodified_status =
                  IF model \in id THEN StatusDecoder(model, messages, status).message
                  ELSE None
            /\ call = [op |-> "__init__", n |-> 0, arg |-> isobus]
    /\ failure = "none"
    /\ decodes = 0
    /\ first_decodified = None
    /\ instrument = [log |-> <<>>, open |-> TRUE, read_termination |-> <<"CR">>,
                     told |-> [I |-> FormatFixed(0, 4), J |-> FormatFixed(0, 5),
                               T |-> FormatG(0), O |-> FormatG(0), G |-> FormatG(0)]]
    /\ raised = <<>>
    /\ repeated = FALSE

\* the state a call of an Oxford operation starts from
EnterCryostat ==
    [self |-> self, instrument |-> [instrument EXCEPT !.log = <<>>],
     raised |-> <<>>, failure |-> "none", messages |-> messages,
     last_queried_status |-> last_queried_status,
     last_decodified_status |-> last_decodified_status]

\* one call of operation op on an open handle, the device answering as env says
Operate(op, arg, env, ctx) ==
    /\ call.n < MaxCalls
    /\ instrument.open
    /\ self' = ctx.self
    /\ instrument' = ctx.instrument
    /\ raised' = ctx.raised
    /\ last_queried_status' = ctx.last_queried_status
    /\ last_decodified_status' = ctx.last_decodified_status
    /\ failure' = ctx.failure
    /\ call' = [op |-> op, n |-> call.n + 1, arg |-> arg, env |-> env,
                failure |-> ctx.failure,
                before |-> [self |-> self, last_queried_status |-> last_queried_status]]
    /\ repeated' = FALSE
    /\ UNCHANGED <<model, tableVars, decodes, first_decodified>>

Call_set_control_mode ==
    \E remote \in BOOLEAN, env \in Environments({"echo"}, {NoStatus}, BOOLEAN) :
        LET locked == remote IN
        Operate("set_control_mode", <<remote, locked>>, env,
                Cryostat_set_control_mode(EnterCryostat, remote, locked, env))

Call_get_status_string ==
    \E env \in Environments({"echo"}, DeviceStatuses[model], {FALSE}) :
        Operate("get_status_string", <<>>, env, Cryostat_get_status_string(EnterCryostat, env))

Call_get_version_string ==
    \E version \in {{model}, {IF model = "ITC" THEN "IPS" ELSE "ITC"}},
       env \in Environments({"echo"}, {NoStatus}, BOOLEAN) :
        /\ env.refused => version = {model}
        /\ Operate("get_version_string", version, env,
                   Cryostat_get_version_string(EnterCryostat, version, env))

Call_set_ISOBUS_adress ==
    \E a \in {1, 9}, interpreter \in {"python2", "python3"},
       env \in Environments({"echo"}, {NoStatus}, BOOLEAN) :
        Operate("_set_ISOBUS_adress_", <<a, interpreter>>, env,
                Cryostat_set_ISOBUS_adress(EnterCryostat, a * Micro, interpreter, env))

Call_set_communication_protocol ==
    \E extended_resolution \in {FALSE} \cup {model = "IPS"}, line_feed \in BOOLEAN,
       env \in Environments({"echo"}, {NoStatus}, {FALSE}) :
        Operate("set_communication_protocol", <<extended_resolution, line_feed>>, env,
                IF model = "IPS"
                THEN OxfordIPS_set_communication_protocol(EnterCryostat, extended_resolution,
                                                          line_feed)
                ELSE Oxford_set_communication_protocol(EnterCryostat, model, line_feed))

Call_get_output_current_reading ==
    /\ model = "IPS"
    /\ \E env \in Environments({"value", "reject"}, {NoStatus}, {FALSE}) :
          Operate("get_output_current_reading", <<>>, env,
                  OxfordIPS_get_reading(EnterCryostat, <<"0">>, "output_current", env))

Call_get_persistent_current_reading ==
    /\ model = "IPS"
    /\ \E env \in Environments({"value", "reject"}, {NoStatus}, {FALSE}) :
          Operate("get_persistent_current_reading", <<>>, env,
                  OxfordIPS_get_reading(EnterCryostat, <<"1", "6">>, "persistent_current", env))

Call_get_status ==
    \E env \in Environments({"echo"}, DeviceStatuses[model], {FALSE}) :
        Operate("get_status", <<>>, env,
                IF model = "IPS" THEN OxfordIPS_get_status(EnterCryostat, env)
                ELSE Oxford_get_status(EnterCryostat, model, env))

Call_set_switch_heater ==
    /\ model = "IPS"
    /\ \E opened \in BOOLEAN, env \in Environments({"echo"}, DeviceStatuses.IPS, {FALSE}) :
          Operate("set_switch_heater", <<opened>>, env,
                  OxfordIPS_set_switch_heater(EnterCryostat, opened, env))

Call_set_activity ==
    /\ model = "IPS"
    /\ \E flags \in {<<TRUE, FALSE, FALSE, FALSE>>, <<FALSE, TRUE, FALSE, FALSE>>,
                     <<FALSE, FALSE, FALSE, TRUE>>},
          env \in Environments({"echo"}, DeviceStatuses.IPS, {FALSE}) :
          Operate("set_activity", flags, env,
                  OxfordIPS_set_activity(EnterCryostat, flags[1], flags[2], flags[3],
                                         flags[4], env))

Call_set_non_persistent_current ==
    /\ model = "IPS"
    /\ \E current \in {1000000},
          env \in Environments({"echo", "reject"}, DeviceStatuses.IPS, {FALSE}) :
          Operate("set_non_persistent_current", <<current>>, env,
                  OxfordIPS_set_non_persistent_current(EnterCryostat, current, env))

Call_set_persistent_current ==
    /\ model = "IPS"
    /\ \E current \in {1000000},
          env \in Environments({"echo"}, DeviceStatuses.IPS, {FALSE}) :
          Operate("set_persistent_current", <<current>>, env,
                  OxfordIPS_set_persistent_current(EnterCryostat, current, env))

Call_set_temperature_control_mode ==
    /\ model = "ITC"
    /\ \E auto_heater, auto_gas_flow \in BOOLEAN,
          env \in Environments({"echo"}, DeviceStatuses.ITC, {FALSE}) :
          Operate("set_temperature_control_mode", <<auto_heater, auto_gas_flow>>, env,
                  OxfordITC_set_temperature_control_mode(EnterCryostat, auto_heater,
                                                         auto_gas_flow, env))

Call_get_sweep_step_reading ==
    /\ model = "ITC"
    /\ \E env \in Environments({"echo"}, DeviceStatuses.ITC, {FALSE}) :
          Operate("get_sweep_step_reading", <<>>, env,
                  OxfordITC_get_sweep_step_reading(EnterCryostat, env))

Call_set_sweep_command ==
    /\ model = "ITC"
    /\ \E stop_sweep \in BOOLEAN, starting_point \in {5, 33},
          env \in Environments({"echo"}, DeviceStatuses.ITC, {FALSE}) :
          Operate("set_sweep_command", <<stop_sweep, starting_point>>, env,
                  OxfordITC_set_sweep_command(EnterCryostat, stop_sweep, starting_point, env))

Call_set_manual_heater ==
    /\ model = "ITC"
    /\ \E percentage \in {0, 101 * Micro},
          env \in Environments({"echo", "value", "reject"}, {NoStatus}, {FALSE}) :
          Operate("set_manual_heater", <<percentage>>, env,
                  OxfordITC_set_manual_output(EnterCryostat, "O", <<"5">>,
                                              "heater_operating_point", percentage, env))

Call_set_manual_gas_flow ==
    /\ model = "ITC"
    /\ \E percentage \in {0, 101 * Micro},
          env \in Environments({"echo", "value", "reject"}, {NoStatus}, {FALSE}) :
          Operate("set_manual_gas_flow", <<percentage>>, env,
                  OxfordITC_set_manual_output(EnterCryostat, "G", <<"7">>,
                                              "needle_valve_operating_point", percentage, env))

\* the status of an ILM whose channels 1, 2 and 3 have the usage digits given
ILMStatus(u1, u2, u3) == [IdleStatus.ILM EXCEPT ![2] = u1, ![3] = u2, ![4] = u3]

\* the idle ILM, no channel in use, and an ILM with channel 1 on helium, channel 2
\* on nitrogen and an error on channel 3
ChannelStatuses == {IdleStatus.ILM, ILMStatus("2", "1", "9")}

Call_get_channel_level_reading ==
    /\ model = "ILM"
    /\ \E k \in 1..3, env \in Environments({"value"}, ChannelStatuses, {FALSE}) :
          Operate("get_channel_level_reading", <<k>>, env,
                  OxfordILM_get_channel_level_reading(EnterCryostat, k, env))

Call_set_needle_valve_position ==
    /\ model = "ILM"
    /\ \E position \in {0, 50 * Micro},
          env \in Environments({"echo", "value", "reject"}, {NoStatus}, {FALSE}) :
          Operate("set_needle_valve_position", <<position>>, env,
                  OxfordILM_set_needle_valve_position(EnterCryostat, position, env))

Call_close ==
    \E env \in Environments({"echo", "reject"}, DeviceStatuses[model], BOOLEAN) :
        Operate("close", <<>>, env,
                CASE model = "IPS" -> OxfordIPS_close(EnterCryostat, env)
                  [] model = "ITC" -> OxfordITC_close(EnterCryostat, env)
                  [] model = "ILM" -> OxfordILM_close(EnterCryostat, env))

NextCryostat ==
    \/ Call_set_control_mode
    \/ Call_get_status_string
    \/ Call_get_version_string
    \/ Call_set_ISOBUS_adress
    \/ Call_set_communication_protocol
    \/ Call_get_output_current_reading
    \/ Call_get_persistent_current_reading
    \/ Call_get_status
    \/ Call_set_switch_heater
    \/ Call_set_activity
    \/ Call_set_non_persistent_current
    \/ Call_set_persistent_current
    \/ Call_set_temperature_control_mode
    \/ Call_get_sweep_step_reading
    \/ Call_set_sweep_command
    \/ Call_set_manual_heater
    \/ Call_set_manual_gas_flow
    \/ Call_get_channel_level_reading
    \/ Call_set_needle_valve_position
    \/ Call_close

SpecCryostat == InitCryostat /\ [][NextCryostat]_vars

(***************************************************************************)
(* The resource manager.  self.resources and the list the bus gives on a   *)
(* refresh are tuples of addresses; the handle open_resource returns is    *)
(* written as the address it was opened on, None as <<>>.                  *)
(***************************************************************************)
Manager_is_resource(ctx, adress) == adress \in Range(ctx.self.resources)

\* self.manager.list_resources(), the bus holding the addresses of tuple bus
list_resources(ctx, bus) ==
    [ctx EXCEPT !.self.resources = bus,
                !.instrument.log = Append(@, [op |-> "list_resources", text |-> <<>>])]

\* return self.manager.open_resource(adress)
open_resource(ctx, adress) ==
    [ctx EXCEPT !.returned = <<adress>>,
                !.instrument.log = Append(@, [op |-> "open_resource", text |-> adress])]

\* both exceptions pass through "error.error_handler(); raise"
Manager_refresh_resources(ctx, bus) ==
    LET initial_resources == ctx.self.resources
        c1 == list_resources(ctx, bus)
    IN  IF c1.self.resources = initial_resources THEN
            IF c1.self.resources = <<>> THEN Uncaught(c1, "VoidManagerError")
            ELSE Uncaught(c1, "InstrumentNotAvailableError")
        ELSE c1

\* the except clause names InstrumentNotAvailableError only, and has no raise
Manager_open_instrument(ctx, adress, bus) ==
    IF Manager_is_resource(ctx, adress) THEN open_resource(ctx, adress)
    ELSE LET c1 == Manager_refresh_resources(ctx, bus) IN
         IF c1.failure = "InstrumentNotAvailableError" THEN Caught(c1)
         ELSE IF c1.failure # "none" THEN c1
         ELSE IF Manager_is_resource(c1, adress) THEN open_resource(c1, adress)
         ELSE Handled(c1, "InstrumentNotAvailableError")

(***************************************************************************)
(* The manager specification: a Manager after its constructor, asked to    *)
(* open addresses and to refresh while instruments come and go on the bus. *)
(***************************************************************************)
Adresses == {"GPIB0::1::INSTR", "GPIB0::24::INSTR"}

\* the tuples list_resources can give
ResourceLists ==
    {<<>>} \cup {<<a>> : a \in Adresses}
           \cup {r \in Adresses \X Adresses : r[1] # r[2]}

InitManager ==
    /\ model = "Manager"
    /\ TableIdle
    /\ DecoderIdle
    /\ self \in {[resources |-> r] : r \in ResourceLists}
    /\ instrument = [log |-> <<>>]
    /\ raised = <<>>
    /\ call = NoCall
    /\ repeated = FALSE

EnterManager ==
    [self |-> self, instrument |-> [instrument EXCEPT !.log = <<>>],
     raised |-> <<>>, failure |-> "none", returned |-> <<>>]

\* one call of operation op of the manager, the bus holding the tuple bus
Manage(op, adress, bus, ctx) ==
    /\ call.n < MaxCalls
    /\ self' = ctx.self
    /\ instrument' = ctx.instrument
    /\ raised' = ctx.raised
    /\ call' = [op |-> op, n |-> call.n + 1, arg |-> adress, env |-> bus,
                failure |-> ctx.failure, returned |-> ctx.returned,
                before |-> [self |-> self]]
    /\ repeated' = FALSE
    /\ UNCHANGED <<model, tableVars, decoderVars>>

Call_open_instrument ==
    \E adress \in Adresses \cup {"adress"}, bus \in ResourceLists :
        Manage("open_instrument", adress, bus,
               Manager_open_instrument(EnterManager, adress, bus))

Call_refresh_resources ==
    \E bus \in ResourceLists :
        Manage("_refresh_resources_", "", bus, Manager_refresh_resources(EnterManager, bus))

NextManager ==
    \/ Call_open_instrument
    \/ Call_refresh_resources

SpecManager == InitManager /\ [][NextManager]_vars

(***************************************************************************)
(* Claims about the resource manager.                                      *)
(***************************************************************************)
\* the number of times the call refreshed the resource list
Refreshes == Cardinality({i \in DOMAIN instrument.log : instrument.log[i].op = "list_resources"})

\* C14: open_instrument(adress) opens an address of the resource list without
\* refreshing; otherwise it refreshes the list exactly once, and when the address is
\* still absent it ends by raising a resource-unavailable failure to its caller: it
\* never returns without a handle
C14_AbsentAddressRaises ==
    call.op = "open_instrument" =>
        /\ call.arg \in Range(call.before.self.resources)
              => (Refreshes = 0 /\ call.returned = <<call.arg>>)
        /\ call.arg \notin Range(call.before.self.resources)
              => /\ Refreshes = 1
                 /\ call.arg \notin Range(self.resources)
                       => call.failure \in {"InstrumentNotAvailableError", "VoidManagerError"}
        /\ ~(call.failure = "none" /\ call.returned = <<>>)

(***************************************************************************)
(* Claims about the Oxford profiles in use.                                *)
(***************************************************************************)
\* the identity the call started with names the profile
Named == model \in call.before.self.identity

\* C13: an operation of an Oxford profile called after construction while the cached identity does not
\* name the profile (get_version_string, which reads the identity, aside) is aborted
\* as wrong-instrument and neither writes nor queries anything on the transport
C13_WrongInstrumentSendsNothing ==
    (call.op \notin {"__init__", "get_version_string"} /\ ~Named)
        => ("IncorrectInstrumentError" \in Range(raised) /\ instrument.log = <<>>)

\* what the call did on the transport, in order, read-back and status queries left
\* out: each command without the ISOBUS prefix, and <<"close">> for the release
Shutdown ==
    LET Step(i) == IF instrument.log[i].op = "close" THEN <<"close">>
                   ELSE PyFrom(instrument.log[i].text, Len(self.buffer_radix))
        steps   == [i \in DOMAIN instrument.log |-> Step(i)]
    IN  SelectSeq(steps, LAMBDA step : step[1] \notin {"R", "X"})

CloseOrder ==
    [IPS |-> << <<"H", "0">>, <<"A", "4">>, <<"C", "2">>, <<"close">> >>,
     ITC |-> << <<"A", "0">>, <<"T", "0">>, <<"O", "0">>, <<"G", "0">>, <<"C", "2">>,
                <<"close">> >>,
     ILM |-> << <<"G", "0">>, <<"C", "2">>, <<"close">> >>]

C16_HandleAlwaysReleased ==
    call.op = "close" => (~instrument.open /\ "close" \in {e.op : e \in Range(instrument.log)})

\* the device rejected the query of the call: its reply holds '?'
Rejected ==
    IF call.op = "get_status" THEN "?" \in Range(call.env.status) ELSE call.env.kind = "reject"

\* the state the call left is the one it found, in what the operation caches
CacheKept ==
    /\ self = call.before.self
    /\ call.op = "get_status" => last_queried_status = call.before.last_queried_status

\* C17: an IPS reading operation or get_status whose reply holds '?' signals a
\* device-not-responding failure to its caller and leaves the cached value as it
\* was before the call
C17_RejectionSignalled ==
    (/\ call.op \in {"get_output_current_reading", "get_persistent_current_reading",
                     "get_status"}
     /\ model = "IPS" /\ Named /\ Rejected)
        => (call.failure = "PSNotResponding" /\ CacheKept)

\* text begins with radix
StartsWith(text, radix) == Len(text) >= Len(radix) /\ PySlice(text, 0, Len(radix)) = radix

\* C18: after construction buffer_radix is '@0' when ISOBUS_master is set, '@' and one
\* digit from 1 to 8 when only ISOBUS_linked is set, and empty otherwise; every
\* command string a call sends begins with the buffer_radix the call found
C18_RadixPrefix ==
    IF call.op = "__init__" THEN
        self.buffer_radix \in
            (IF call.arg.ISOBUS_master THEN {<<"@", "0">>}
             ELSE IF call.arg.ISOBUS_linked
                  THEN {<<"@", d>> : d \in {"1", "2", "3", "4", "5", "6", "7", "8"}}
             ELSE {<<>>})
    ELSE \A i \in DOMAIN instrument.log :
            instrument.log[i].op # "close"
                => StartsWith(instrument.log[i].text, call.before.self.buffer_radix)

\* C19: _set_ISOBUS_adress_(a) sends '!a' only for an address from 1 to 8; for any
\* other address it ends with an incorrect-ISOBUS-address failure and sends nothing
C19_AddressRangeChecked ==
    call.op = "_set_ISOBUS_adress_" =>
        LET a == call.arg[1] IN
        /\ instrument.log # <<>> => a \in 1..8
        /\ a \notin 1..8 => (/\ "CryostatIncorrectISOBUSAdress" \in Range(raised)
                              /\ instrument.log = <<>>)

\* C20: set_non_persistent_current has no other end than its return after a status
\* read whose character 11 is '0': against a device that answers every status read,
\* the call ends only by returning, the last status it read showing '0' there
C20_EndsOnlyAtRest ==
    (/\ call.op = "set_non_persistent_current"
     /\ Named /\ "?" \notin Range(call.env.status))
        => (call.failure = "none" /\ PyItem(last_queried_status, 11).value = "0")

RECURSIVE Subsequence(_, _)
\* the steps stand in done in this order, other steps between them or not
Subsequence(steps, done) ==
    \/ steps = <<>>
    \/ /\ done # <<>>
       /\ IF Head(done) = Head(steps) THEN Subsequence(Tail(steps), Tail(done))
          ELSE Subsequence(steps, Tail(done))

\* the 'I' command of the current the call was given
TargetCurrent ==
    <<"I">> \o FormatFixed(call.arg[1], IF call.before.self.extended_resolution THEN 4 ELSE 3)

\* C25: set_persistent_current(c) sends, in this order, 'H1' when the switch heater
\* was not on, 'I<c>', and after the sweep 'H0' and then 'A2'; and it sends 'I<c>'
\* only when the last status read shows the switch heater on ('1' at index 8)
C25_PersistentSequence ==
    (/\ call.op = "set_persistent_current"
     /\ Named /\ "?" \notin Range(call.env.status))
        => /\ Subsequence((IF call.env.status[9] # "1" THEN << <<"H", "1">> >> ELSE <<>>)
                              \o <<TargetCurrent, <<"H", "0">>, <<"A", "2">> >>, Shutdown)
           /\ TargetCurrent \in Range(Shutdown) => last_queried_status[9] = "1"

\* C26: _set_ISOBUS_adress_(a) with a legal address and a reply without '?' raises
\* nothing and leaves buffer_radix at '@a'; with a reply that holds '?' it leaves
\* buffer_radix as it was
C26_AddressTaken ==
    call.op = "_set_ISOBUS_adress_" =>
        LET a == call.arg[1] IN
        /\ (a \in 1..8 /\ ~call.env.refused)
              => /\ raised = <<>> /\ call.failure = "none"
                 /\ self.buffer_radix = <<"@">> \o FormatG(a * Micro)
        /\ call.env.refused => self.buffer_radix = call.before.self.buffer_radix

\* the sweep step a status string shows, None when the status is a rejection
StepShown(status) ==
    IF "?" \in Range(status) THEN NoReading ELSE Reading(PyFloat(PySlice(status, 7, 9)))

\* C27: set_sweep_command with starting_point in 1..32 is a set-then-verify: when the
\* device then shows sweep step 0 after stop_sweep, or step starting_point after a
\* start, the call ends without failure, and on any other step shown it raises the
\* device-not-responding failure of the ITC
C27_SweepVerified ==
    (/\ call.op = "set_sweep_command"
     /\ Named /\ call.arg[2] \in 1..32)
        => LET wanted == IF call.arg[1] THEN 0 ELSE call.arg[2] * Micro IN
           IF StepShown(call.env.status) = Reading(wanted)
           THEN call.failure = "none" /\ raised = <<>>
           ELSE "TCNotResponding" \in Range(raised)

\* the last call sent the query 'R<k>'
Asked(k) ==
    \E i \in DOMAIN instrument.log :
        instrument.log[i].text = call.before.self.buffer_radix \o <<"R", ToString(k)>>

\* C30: get_channel_k_level_reading decides from the usage digit of channel k, the
\* status character at index k: on '0' it raises channel-not-used and on '9'
\* error-on-channel, in both cases without sending 'Rk' and without changing
\* channel_k_level; and it raises low-helium only when that digit is '2' or '3',
\* low-nitrogen only when it is '1'
C30_OwnUsageDigit ==
    (/\ call.op = "get_channel_level_reading"
     /\ Named /\ "?" \notin Range(call.env.status))
        => LET k     == call.arg[1]
               digit == call.env.status[k + 1]
           IN  /\ digit = "0" => "LMChannelNotUsed" \in Range(raised)
               /\ digit = "9" => "LMErrorOnChannel" \in Range(raised)
               /\ digit \in {"0", "9"}
                     => (~Asked(k) /\ self.channel_level = call.before.self.channel_level)
               /\ "Low_LHe_level" \in Range(raised) => digit \in {"2", "3"}
               /\ "Low_LN2_level" \in Range(raised) => digit = "1"

(***************************************************************************)
(* Lakeshore 340: the cached readings and the set-then-read-back           *)
(* operations.  The device's answer to a query is the text reply, a        *)
(* sequence of characters.                                                 *)
(***************************************************************************)
\* a Python bool held in a tuple of settings (True == 1, False == 0)
PyBoolean(b) == [type |-> "bool", value |-> IF b THEN 1 ELSE 0]

RECURSIVE PySplit(_, _)
\* chars.split(sep)
PySplit(chars, sep) ==
    LET at == {i \in DOMAIN chars : chars[i] = sep} IN
    IF at = {} THEN <<chars>>
    ELSE LET i == CHOOSE j \in at : \A k \in at : j <= k
         IN  <<SubSeq(chars, 1, i - 1)>> \o PySplit(SubSeq(chars, i + 1, Len(chars)), sep)

\* '340' in self.identity: the identity token that holds the model number
IsLakeshore340(ctx) == "MODEL340" \in ctx.self.identity

\* "if str(input) == 'A': self.input_A_<x> = ... else: self.input_B_<x> = ..."
Assign(ctx, input, attribute_A, attribute_B, value) ==
    IF input = "A" THEN [ctx EXCEPT !.self[attribute_A] = <<value>>]
    ELSE [ctx EXCEPT !.self[attribute_B] = <<value>>]

Lakeshore340_get_input_curve_number_reading(ctx, input, reply) ==
    IF IsLakeshore340(ctx)
    THEN Assign(Ask(ctx, <<"INCRV? ", input>>), input,
                "input_A_input_curve", "input_B_input_curve", PyInteger(DecInt(reply)))
    ELSE Handled(ctx, "IncorrectInstrumentError")

Lakeshore340_set_input_curve_number(ctx, input, curve_number, reply) ==
    IF IsLakeshore340(ctx)
    THEN LET read == Lakeshore340_get_input_curve_number_reading(
                         Write(ctx, <<"INCRV ", input, ",", PyStr(PyInteger(curve_number))>>),
                         input, reply)
         IN  IF \/ ~(input = "A" /\ read.self.input_A_input_curve = <<PyInteger(curve_number)>>)
                \/ ~(input = "B" /\ read.self.input_B_input_curve = <<PyInteger(curve_number)>>)
             THEN Handled(read, "LS340NotResponding")
             ELSE read
    ELSE Handled(ctx, "IncorrectInstrumentError")

Lakeshore340_get_linear_equation_data_reading(ctx, input, reply) ==
    IF IsLakeshore340(ctx)
    THEN Assign(Ask(ctx, <<"LDAT? ", input>>), input,
                "input_A_linear_data", "input_B_linear_data", PyFloating(PyFloat(reply)))
    ELSE Handled(ctx, "IncorrectInstrumentError")

Lakeshore340_get_linear_equation_data_status(ctx, input, reply) ==
    IF IsLakeshore340(ctx)
    THEN Assign(Ask(ctx, <<"LDATST? ", input>>), input,
                "input_A_linear_data", "input_B_linear_data", PyInteger(DecInt(reply)))
    ELSE Handled(ctx, "IncorrectInstrumentError")

Lakeshore340_get_max_min_status(ctx, input, reply) ==
    IF IsLakeshore340(ctx)
    THEN LET string_list == PySplit(reply, ",") IN
         Assign(Ask(ctx, <<"MDATST? ", input>>), input,
                "input_A_maxmin_status", "input_B_maxmin_status",
                <<PyInteger(DecInt(string_list[1])), PyInteger(DecInt(string_list[2]))>>)
    ELSE Handled(ctx, "IncorrectInstrumentError")

Lakeshore340_get_max_min(ctx, input, reply) ==
    IF IsLakeshore340(ctx)
    THEN LET string_list == PySplit(reply, ",")
             result == <<PyBoolean(string_list[1] # <<"1">>),
                         PyInteger(DecInt(string_list[2]))>>
         IN  Assign(Ask(ctx, <<"MNMX? ", input>>), input,
                    "input_A_maxmin_status", "input_B_maxmin_status", result)
    ELSE Handled(ctx, "IncorrectInstrumentError")

Lakeshore340_set_max_min(ctx, input, paused, source, reply) ==
    IF IsLakeshore340(ctx)
    THEN LET paused_number == IF paused THEN 2 ELSE 1
             read == Lakeshore340_get_max_min(
                         Write(ctx, <<"MNMX ", input, ", ", PyStr(PyInteger(paused_number)),
                                      ", ", PyStr(PyInteger(source))>>),
                         input, reply)
             wanted == <<<<PyBoolean(paused), PyInteger(source)>>>>
         IN  IF \/ ~(input = "A" /\ read.self.input_A_maxmin = wanted)
                \/ ~(input = "B" /\ read.self.input_B_maxmin = wanted)
             THEN Handled(read, "LS340NotResponding")
             ELSE read
    ELSE Handled(ctx, "IncorrectInstrumentError")

(***************************************************************************)
(* A Lakeshore 340 profile in use.                                         *)
(***************************************************************************)
\* the cached readings of the two inputs that the operations above concern
LakeshoreReadings ==
    {"input_A_input_curve", "input_B_input_curve",
     "input_A_linear_data", "input_B_linear_data",
     "input_A_linear_data_status", "input_B_linear_data_status",
     "input_A_maxmin", "input_B_maxmin",
     "input_A_maxmin_status", "input_B_maxmin_status"}

LakeshoreInputs == {"A", "B"}

CurveNumbers == {1, 21}

MaxMinSources == {1, 2}

\* what the device answers to 'MNMX? <input>' when it holds (paused, source)
MaxMinReply(paused, source) == <<IF paused THEN "2" ELSE "1", ",">> \o Digits(source)

InitLakeshore ==
    /\ model = "Lakeshore340"
    /\ TableIdle
    /\ DecoderIdle
    /\ \E id \in {{"LSCI", "MODEL340"}, {"KEITHLEY", "2400"}} :
          self = [identity |-> id,
                  input_A_input_curve |-> <<>>, input_B_input_curve |-> <<>>,
                  input_A_linear_data |-> <<>>, input_B_linear_data |-> <<>>,
                  input_A_linear_data_status |-> <<>>, input_B_linear_data_status |-> <<>>,
                  input_A_maxmin |-> <<>>, input_B_maxmin |-> <<>>,
                  input_A_maxmin_status |-> <<>>, input_B_maxmin_status |-> <<>>]
    /\ instrument = [log |-> <<>>]
    /\ raised = <<>>
    /\ call = NoCall
    /\ repeated = FALSE

EnterLakeshore ==
    [self |-> self, instrument |-> [instrument EXCEPT !.log = <<>>],
     raised |-> <<>>, failure |-> "none"]

\* one call of operation op on input, the device answering with the text reply
Measure340(op, input, arg, reply, ctx) ==
    /\ call.n < MaxCalls
    /\ self' = ctx.self
    /\ instrument' = ctx.instrument
    /\ raised' = ctx.raised
    /\ call' = [op |-> op, n |-> call.n + 1, input |-> input, arg |-> arg,
                reply |-> reply, failure |-> ctx.failure, before |-> [self |-> self]]
    /\ repeated' = FALSE
    /\ UNCHANGED <<model, tableVars, decoderVars>>

Call_get_input_curve_number_reading ==
    \E input \in LakeshoreInputs, held \in CurveNumbers :
        Measure340("get_input_curve_number_reading", input, <<>>, Digits(held),
                   Lakeshore340_get_input_curve_number_reading(EnterLakeshore, input,
                                                               Digits(held)))

Call_set_input_curve_number ==
    \E input \in LakeshoreInputs, curve_number \in CurveNumbers, held \in CurveNumbers :
        Measure340("set_input_curve_number", input, curve_number, Digits(held),
                   Lakeshore340_set_input_curve_number(EnterLakeshore, input, curve_number,
                                                       Digits(held)))

Call_get_linear_equation_data_reading ==
    \E input \in LakeshoreInputs, reply \in {<<"1", ".", "5">>, <<"-", "2", ".", "0">>} :
        Measure340("get_linear_equation_data_reading", input, <<>>, reply,
                   Lakeshore340_get_linear_equation_data_reading(EnterLakeshore, input, reply))

Call_get_linear_equation_data_status ==
    \E input \in LakeshoreInputs, reply \in {<<"0">>, <<"1">>} :
        Measure340("get_linear_equation_data_status", input, <<>>, reply,
                   Lakeshore340_get_linear_equation_data_status(EnterLakeshore, input, reply))

Call_get_max_min_status ==
    \E input \in LakeshoreInputs, reply \in {<<"0", ",", "0">>, <<"1", ",", "0">>} :
        Measure340("get_max_min_status", input, <<>>, reply,
                   Lakeshore340_get_max_min_status(EnterLakeshore, input, reply))

Call_get_max_min ==
    \E input \in LakeshoreInputs, held \in BOOLEAN \X MaxMinSources :
        Measure340("get_max_min", input, <<>>, MaxMinReply(held[1], held[2]),
                   Lakeshore340_get_max_min(EnterLakeshore, input,
                                            MaxMinReply(held[1], held[2])))

Call_set_max_min ==
    \E input \in LakeshoreInputs, wanted \in BOOLEAN \X MaxMinSources,
       held \in BOOLEAN \X MaxMinSources :
        Measure340("set_max_min", input, wanted, MaxMinReply(held[1], held[2]),
                   Lakeshore340_set_max_min(EnterLakeshore, input, wanted[1], wanted[2],
                                            MaxMinReply(held[1], held[2])))

NextLakeshore ==
    \/ Call_get_input_curve_number_reading
    \/ Call_set_input_curve_number
    \/ Call_get_linear_equation_data_reading
    \/ Call_get_linear_equation_data_status
    \/ Call_get_max_min_status
    \/ Call_get_max_min
    \/ Call_set_max_min

SpecLakeshore == InitLakeshore /\ [][NextLakeshore]_vars

(***************************************************************************)
(* Claims about the Lakeshore 340 profile.                                 *)
(***************************************************************************)
\* the cached reading that belongs to an operation on an input: a get operation's own
\* attribute, a set operation's the attribute of the read-back it verifies against
OwnReading ==
    [get_input_curve_number_reading   |-> [A |-> "input_A_input_curve",
                                           B |-> "input_B_input_curve"],
     set_input_curve_number           |-> [A |-> "input_A_input_curve",
                                           B |-> "input_B_input_curve"],
     get_linear_equation_data_reading |-> [A |-> "input_A_linear_data",
                                           B |-> "input_B_linear_data"],
     get_linear_equation_data_status  |-> [A |-> "input_A_linear_data_status",
                                           B |-> "input_B_linear_data_status"],
     get_max_min_status               |-> [A |-> "input_A_maxmin_status",
                                           B |-> "input_B_maxmin_status"],
     get_max_min                      |-> [A |-> "input_A_maxmin",
                                           B |-> "input_B_maxmin"],
     set_max_min                      |-> [A |-> "input_A_maxmin",
                                           B |-> "input_B_maxmin"]]

\* the cached readings whose value the last call changed
Rewritten == {a \in LakeshoreReadings : self[a] # call.before.self[a]}

\* C21: a cached reading is written only by its own get operation: a call of a reading
\* operation on a Lakeshore 340 leaves its own attribute holding the value read and
\* changes no other cached reading
C21_ReadingWrittenByOwnOperation ==
    (/\ call.op \in DOMAIN OwnReading
     /\ "MODEL340" \in call.before.self.identity)
        => /\ Rewritten \subseteq {OwnReading[call.op][call.input]}
           /\ self[OwnReading[call.op][call.input]] # <<>>

\* C22: set_input_curve_number and set_max_min on input 'A' or 'B' verify by
\* read-back: when the device answers the read-back with the requested value no
\* device-not-responding failure is raised, and one is raised when it answers with
\* another value
C22_ReadBackDecides ==
    (/\ call.op \in {"set_input_curve_number", "set_max_min"}
     /\ "MODEL340" \in call.before.self.identity)
        => LET requested == IF call.op = "set_input_curve_number" THEN Digits(call.arg)
                            ELSE MaxMinReply(call.arg[1], call.arg[2])
           IN  ("LS340NotResponding" \in Range(raised)) <=> (call.reply # requested)

(***************************************************************************)
(* Keithley 6517A: the voltage source configuration.                       *)
(***************************************************************************)
\* the except clause ends with raise: what the try block raised leaves the operation
Keithley6517A_voltage_source_configuration(ctx, o, reply) ==
    IF IsKeithley6517A(ctx) THEN
        IF Abs(o.voltage.value) <= 1000 THEN
            Keithley6517A_error_query(
                Instruments_operation_complete_query(
                    Write(ctx,
                          <<":SOUR:VOLT ", PyStr(o.voltage), ";">>
                          \o (IF o.auto_range
                              THEN <<":SOUR:VOLT:RANG ", PyStr(o.voltage), ";">> ELSE <<>>)
                          \o (IF o.enable_V_limit
                              THEN <<":SOUR:VOLT:LIM:STAT ON;">>
                                   \o (IF o.auto_V_limit
                                       THEN <<":SOUR:VOLT:LIM ", PyStr(o.voltage), ";">>
                                       ELSE <<":SOUR:VOLT:LIM:STAT OFF;">>)
                              ELSE <<>>)
                          \o (IF o.meter_connect
                              THEN <<":SOUR:VOLT:MCON ON;">> ELSE <<":SOUR:VOLT:MCON OFF;">>)
                          \o (IF o.enable_I_limit
                              THEN <<":SOUR:CURR:RLIMIT:STAT ON;", ":SOUR:CURR:LIM ",
                                     PyStr(o.current_limit), ";">>
                              ELSE <<":SOUR:CURR:RLIMIT:STAT OFF;">>))),
                reply)
        ELSE Uncaught(ctx, "Keithley6517AIncorrectSourceValueError")
    ELSE Uncaught(ctx, "IncorrectInstrumentError")

(***************************************************************************)
(* Keithley 2400: the source output and the acquisitions.  env.on,         *)
(* env.read and env.off are the device's answers to the ':SYST:ERR?' that  *)
(* follows ':OUTP:STAT ON;', ':READ?' and ':OUTP:STAT OFF;'; env.short     *)
(* says that ':READ?' delivered fewer values than trigger_count rows of    *)
(* element_number values.                                                  *)
(***************************************************************************)
Keithley2400_output_off(ctx, env) ==
    IF IsKeithley2400(ctx) THEN
        LET asked == Ask(Write(ctx, <<":OUTP:STAT OFF;">>), <<":OUTP:STAT?">>) IN
        Keithley2400_error_query(
            Instruments_operation_complete_query(
                [asked EXCEPT !.self.output_status = <<"0">>]), env.off)
    ELSE Uncaught(ctx, "IncorrectInstrumentError")

\* the except clause calls _output_off_ before the handler and the raise: an
\* exception of _output_off_ leaves in place of the one caught
Keithley2400_output_on(ctx, env) ==
    LET tried == IF IsKeithley2400(ctx) THEN
                     LET asked == Ask(Write(ctx, <<":OUTP:STAT ON;">>), <<":OUTP:STAT?">>) IN
                     Keithley2400_error_query(
                         Instruments_operation_complete_query(
                             [asked EXCEPT !.self.output_status = <<"1">>]), env.on)
                 ELSE Uncaught(ctx, "IncorrectInstrumentError")
    IN  IF tried.failure = "none" THEN tried
        ELSE LET off == Keithley2400_output_off([tried EXCEPT !.failure = "none"], env)
             IN  IF off.failure # "none" THEN off
                 ELSE [off EXCEPT !.failure = tried.failure]

\* one acquisition: output on, ':READ?', barrier, error query, output off
Acquire(ctx, env) ==
    Then(Keithley2400_output_on(ctx, env), LAMBDA c1 :
    Then(Keithley2400_error_query(
             Instruments_operation_complete_query(Ask(c1, <<":READ?">>)), env.read),
         LAMBDA c2 : Keithley2400_output_off(c2, env)))

\* the rows of one acquisition: range(self.trigger_count) raises TypeError while
\* trigger_count is None, string_split[...] raises IndexError on a short reading
Rows(ctx, env) ==
    IF ctx.self.trigger_count = <<>> THEN Uncaught(ctx, "TypeError")
    ELSE IF env.short THEN Uncaught(ctx, "IndexError")
    ELSE ctx

\* "except (ReportInstrumentInternalError, IncorrectInstrumentError) as error:
\* error.error_handler()" with no raise; any other exception leaves the operation
Reported(ctx) ==
    IF ctx.failure \in {"ReportInstrumentInternalError", "IncorrectInstrumentError"}
    THEN Caught(ctx) ELSE ctx

Keithley2400_acquire_measurements(ctx, env) ==
    IF IsKeithley2400(ctx) THEN
        Reported(Then(Acquire(ctx, env), LAMBDA c3 :
                      Rows(Ask(Ask(c3, <<":SYST:RSEN?">>), <<":FORM:ELEM?">>), env)))
    ELSE Handled(ctx, "IncorrectInstrumentError")

RECURSIVE Sweeps(_, _, _)
\* the remaining passes of "for i in range(self.arm_count)"
Sweeps(ctx, env, passes) ==
    IF passes = 0 THEN ctx
    ELSE Then(Acquire(ctx, env), LAMBDA c3 :
         Then(Rows(Ask(Ask(Ask(c3, <<":SOUR:SWE:SPAC?">>), <<":SYST:RSEN?">>),
                       <<":FORM:ELEM?">>), env),
              LAMBDA c4 : Sweeps(c4, env, passes - 1)))

\* range(self.arm_count) raises TypeError while arm_count is None
Keithley2400_acquire_sweeps(ctx, env) ==
    IF IsKeithley2400(ctx) THEN
        IF ctx.self.arm_count = <<>> THEN Uncaught(ctx, "TypeError")
        ELSE Reported(Sweeps(ctx, env, ctx.self.arm_count[1]))
    ELSE Handled(ctx, "IncorrectInstrumentError")

(***************************************************************************)
(* A Keithley profile through a measurement session: counts, source and    *)
(* acquisitions.                                                           *)
(***************************************************************************)
MaxSession == 3

NoError == <<"0", "\"No error\"">>

\* at most one thing goes wrong in a call
SessionEnvs ==
    {e \in [on : ErrorReplies, read : ErrorReplies, off : ErrorReplies, short : BOOLEAN] :
        Cardinality({k \in {"on", "read", "off"} : e[k] # NoError})
            + (IF e.short THEN 1 ELSE 0) <= 1}

session_arm_options == {[count |-> PyInteger(n)] : n \in {1, 2, 2501}}

session_trigger_options == {[count |-> PyInteger(n), delay |-> PyInteger(0)] : n \in {1, 1251}}

voltage_source_options ==
    {[voltage |-> PyInteger(20), auto_range |-> a, voltage_range |-> PyInteger(20),
      enable_V_limit |-> e, auto_V_limit |-> l, voltage_limit |-> PyInteger(500),
      meter_connect |-> FALSE, enable_I_limit |-> i, current_limit |-> PyInteger(0)] :
        a \in {TRUE}, e \in BOOLEAN, l \in BOOLEAN, i \in BOOLEAN}
    \cup {[voltage |-> PyInteger(2000), auto_range |-> FALSE, voltage_range |-> PyInteger(20),
           enable_V_limit |-> FALSE, auto_V_limit |-> TRUE, voltage_limit |-> PyInteger(1000),
           meter_connect |-> TRUE, enable_I_limit |-> FALSE, current_limit |-> PyInteger(0)]}

InitSession ==
    /\ model \in {"K2400", "K6517A"}
    /\ TableIdle
    /\ DecoderIdle
    /\ self = [identity |-> IF model = "K2400" THEN {"KEITHLEY", "2400"}
                            ELSE {"KEITHLEY", "6517A"},
               arm_count |-> <<>>, trigger_count |-> <<>>, sweep_steps |-> <<>>,
               output_status |-> <<>>, last_internal_error |-> <<>>]
    /\ instrument = [log |-> <<>>]
    /\ raised = <<>>
    /\ call = NoCall
    /\ repeated = FALSE

\* one call of operation op in the session
Session(op, o, env, ctx) ==
    /\ call.n < MaxSession
    /\ self' = ctx.self
    /\ instrument' = ctx.instrument
    /\ raised' = ctx.raised
    /\ call' = [op |-> op, n |-> call.n + 1, arg |-> o, env |-> env,
                failure |-> ctx.failure, before |-> [self |-> self]]
    /\ repeated' = FALSE
    /\ UNCHANGED <<model, tableVars, decoderVars>>

Session_arm_configuration ==
    model = "K2400" /\ \E o \in session_arm_options, reply \in ErrorReplies :
        Session("arm_configuration", o, reply,
                Keithley2400_arm_configuration(Enter, o, reply))

Session_trigger_configuration ==
    model = "K2400" /\ \E o \in session_trigger_options, reply \in ErrorReplies :
        Session("trigger_configuration", o, reply,
                Keithley2400_trigger_configuration(Enter, o, reply))

Session_acquire_measurements ==
    model = "K2400" /\ \E env \in SessionEnvs :
        Session("acquire_measurements", <<>>, env,
                Keithley2400_acquire_measurements(Enter, env))

Session_acquire_sweeps ==
    model = "K2400" /\ \E env \in SessionEnvs :
        Session("acquire_sweeps", <<>>, env, Keithley2400_acquire_sweeps(Enter, env))

Session_voltage_source_configuration ==
    model = "K6517A" /\ \E o \in voltage_source_options, reply \in ErrorReplies :
        Session("voltage_source_configuration", o, reply,
                Keithley6517A_voltage_source_configuration(Enter, o, reply))

NextSession ==
    \/ Session_arm_configuration
    \/ Session_trigger_configuration
    \/ Session_acquire_measurements
    \/ Session_acquire_sweeps
    \/ Session_voltage_source_configuration

SpecSession == InitSession /\ [][NextSession]_vars

(***************************************************************************)
(* Claims about the command buffers of the Keithley profiles.              *)
(***************************************************************************)
\* the positions of the character c in a buffer's text
Positions(text, c) == {i \in 1..Len(text) : SubSeq(text, i, i) = c}

\* a command is a ':'-opened header, then a space and its parameter: a ':' that comes
\* after a space with no ';' between the two opens a command that nothing separates
\* from the command before it
Undelimited(text) ==
    LET colons == Positions(text, ":")
        spaces == Positions(text, " ")
        semis  == Positions(text, ";")
    IN  {i \in colons : \E j \in spaces : j < i /\ \A k \in semis : ~(j < k /\ k < i)}

\* C23: every command buffer a Keithley 2400 configuration operation writes is
\* semicolon-delimited: between any two consecutive commands of it there is a ';'
C23_SemicolonDelimited ==
    model = "K2400" => \A i \in Writes : Undelimited(Str(instrument.log[i].text)) = {}

\* fragment frag stands somewhere in the buffer the call wrote
Composed(frag) == Writes # {} /\ \E i \in DOMAIN Buffer : Holds(Buffer, frag, i)

\* C24: voltage_source_configuration of the Keithley 6517A with enable_V_limit and
\* without auto_V_limit switches the hardware voltage limit on with the value given:
\* the buffer holds ':SOUR:VOLT:LIM:STAT ON;' followed by ':SOUR:VOLT:LIM <voltage_limit>;'
\* and no ':SOUR:VOLT:LIM:STAT OFF;'; without enable_V_limit nothing switches the limit on
C24_ManualVoltageLimit ==
    (/\ call.op = "voltage_source_configuration"
     /\ Writes # {})
        => /\ (call.arg.enable_V_limit /\ ~call.arg.auto_V_limit)
                 => /\ Composed(<<":SOUR:VOLT:LIM:STAT ON;", ":SOUR:VOLT:LIM ",
                              PyStr(call.arg.voltage_limit), ";">>)
                    /\ ~Composed(<<":SOUR:VOLT:LIM:STAT OFF;">>)
           /\ ~call.arg.enable_V_limit => ~Composed(<<":SOUR:VOLT:LIM:STAT ON;">>)

(***************************************************************************)
(* Claims about the counts and the acquisitions of the Keithley 2400.      *)
(***************************************************************************)
\* the two cached counts satisfy the limits of the instrument's buffer
CountsWithinLimits(object) ==
    (object.arm_count # <<>> /\ object.trigger_count # <<>>)
        => /\ 1 <= object.arm_count[1] /\ object.arm_count[1] <= 2500
           /\ object.trigger_count[1] >= 1
           /\ object.arm_count[1] * object.trigger_count[1] <= 2500

\* C28: after any sequence of arm_configuration and trigger_configuration calls the
\* cached counts, once both are set, satisfy 1 <= arm_count <= 2500, trigger_count >= 1
\* and arm_count * trigger_count <= 2500; a call that raised a count failure leaves
\* both cached counts as they were
C28_CountsWithinLimits ==
    model = "K2400" =>
        /\ CountsWithinLimits(self)
        /\ (/\ call.op \in {"arm_configuration", "trigger_configuration"}
            /\ Range(raised) \cap {"Keithley2400TooManyArms", "Keithley2400NegativeArmCountError",
                                   "Keithley2400TooManyTriggers",
                                   "Keithley2400NegativeTriggerCountError"} # {})
              => /\ self.arm_count = call.before.self.arm_count
                 /\ self.trigger_count = call.before.self.trigger_count

\* the output commands the call sent, in order
OutputCommands ==
    SelectSeq([i \in DOMAIN instrument.log |-> instrument.log[i]],
              LAMBDA e : e.op = "write"
                         /\ e.text \in {<<":OUTP:STAT ON;">>, <<":OUTP:STAT OFF;">>})

\* C29: acquire_measurements and acquire_sweeps never leave the source output on: on
\* every exit path, the last output command the call sent is ':OUTP:STAT OFF;'
C29_OutputOffAtExit ==
    (/\ call.op \in {"acquire_measurements", "acquire_sweeps"}
     /\ OutputCommands # <<>>)
        => OutputCommands[Len(OutputCommands)].text = <<":OUTP:STAT OFF;">>

====
